---- MODULE Spec2Model ----
(***************************************************************************)
(* fortiplugin-bundle-adapter: the build-time rewrite of an entry chunk    *)
(* into a dependency factory (src/babel/transform.ts, src/vite/prep.ts),   *)
(* the evaluation of the emitted factory, and the runtime resolver         *)
(* (src/runtime/create-factory.ts).                                        *)
(*                                                                         *)
(* Syntax trees are records with a `type` field, as in @babel/types; a     *)
(* field of a given name has the same kind of value in every node.         *)
(* JavaScript values are records with a `t` field (the typeof class).      *)
(***************************************************************************)
EXTENDS Integers, Sequences, FiniteSets, TLC

\* ------------------------------------------------------------------ bounds
\* statements per input file
MaxStmts == 3
\* statements per input file when one plugin object visits two files
MaxSharedStmts == 1
\* statements per input file when the emitted factory is also called
MaxCallStmts == 2
\* entries of env.hostUrls in one createFactory call
MaxHostUrls == 2
\* calls of one render function
MaxRenders == 1
\* resolvers derived with with()
MaxWiths == 2
\* calls of resolve() on the resolvers
MaxResolves == 2
\* resolutions one Embed starts
MaxFlights == 2

\* ------------------------------------------------------------ small helpers
\* JS null for defaultExportLocalName (string | null): no identifier is empty,
\* and `!name` is true of both.
NoName == ""

Range(s) == {s[i] : i \in 1..Len(s)}

RECURSIVE Flatten(_)
Flatten(ss) == IF ss = <<>> THEN <<>> ELSE Head(ss) \o Flatten(Tail(ss))

SeqMap(Op(_), s) == [i \in 1..Len(s) |-> Op(s[i])]

RECURSIVE IsSubsequence(_, _)
\* a is b with some elements left out, order kept
IsSubsequence(a, b) ==
    IF a = <<>> THEN TRUE
    ELSE IF b = <<>> THEN FALSE
    ELSE IF Head(a) = Head(b) THEN IsSubsequence(Tail(a), Tail(b))
    ELSE IsSubsequence(a, Tail(b))

NoDuplicates(s) == \A i, j \in 1..Len(s) : s[i] = s[j] => i = j

\* String.prototype.startsWith
StartsWith(s, p) == Len(p) <= Len(s) /\ SubSeq(s, 1, Len(p)) = p

IdentChars ==
    {"a","b","c","d","e","f","g","h","i","j","k","l","m","n","o","p","q","r",
     "s","t","u","v","w","x","y","z","A","B","C","D","E","F","G","H","I","J",
     "K","L","M","N","O","P","Q","R","S","T","U","V","W","X","Y","Z","0","1",
     "2","3","4","5","6","7","8","9","_","$"}

RECURSIVE ReplaceNonIdent(_)
\* importId.replace(/[^a-zA-Z0-9_$]/g, "_")
ReplaceNonIdent(s) ==
    IF Len(s) = 0 THEN ""
    ELSE (IF SubSeq(s, 1, 1) \in IdentChars THEN SubSeq(s, 1, 1) ELSE "_")
         \o ReplaceNonIdent(SubSeq(s, 2, Len(s)))

\* ------------------------------------------------------------- syntax trees
NullNode == [type |-> "null"]
Identifier(n) == [type |-> "Identifier", name |-> n]
StringLiteral(v) == [type |-> "StringLiteral", text |-> v]
NullLiteral == [type |-> "NullLiteral"]
EmptyObject == [type |-> "ObjectExpression", properties |-> <<>>]

ImportDefaultSpecifier(l) == [type |-> "ImportDefaultSpecifier", local |-> l]
ImportNamespaceSpecifier(l) == [type |-> "ImportNamespaceSpecifier", local |-> l]
ImportSpecifier(i, l) == [type |-> "ImportSpecifier", imported |-> i, local |-> l]
ImportDeclaration(specs, src) ==
    [type |-> "ImportDeclaration", specifiers |-> specs, source |-> src]

ExportSpecifier(l, e) == [type |-> "ExportSpecifier", local |-> l, exported |-> e]
\* export * as e from "src": the specifier has no local
ExportNamespaceSpecifier(e) == [type |-> "ExportNamespaceSpecifier", exported |-> e]
ExportNamedDeclaration(decl, specs, src) ==
    [type |-> "ExportNamedDeclaration", declaration |-> decl,
     specifiers |-> specs, source |-> src]
ExportDefaultDeclaration(decl) ==
    [type |-> "ExportDefaultDeclaration", declaration |-> decl]

BlockStatement(stmts) == [type |-> "BlockStatement", body |-> stmts]
\* id is NullNode for an anonymous function
FunctionDeclaration(id, params, stmts) ==
    [type |-> "FunctionDeclaration", id |-> id, params |-> params,
     body |-> BlockStatement(stmts)]
ArrowFunctionExpression(params, expr) ==
    [type |-> "ArrowFunctionExpression", params |-> params, body |-> expr]
NumericLiteral(n) == [type |-> "NumericLiteral", num |-> n]
VariableDeclarator(id, init) == [type |-> "VariableDeclarator", id |-> id, init |-> init]
VariableDeclaration(declarators) ==
    [type |-> "VariableDeclaration", kind |-> "const", declarations |-> declarators]
ReturnStatement(arg) == [type |-> "ReturnStatement", argument |-> arg]
MemberExpression(obj, prop, computed) ==
    [type |-> "MemberExpression", object |-> obj, property |-> prop, computed |-> computed]
CallExpression(callee, args) ==
    [type |-> "CallExpression", callee |-> callee, arguments |-> args]
LogicalExpression(op, l, r) ==
    [type |-> "LogicalExpression", operator |-> op, left |-> l, right |-> r]
BinaryExpression(op, l, r) ==
    [type |-> "BinaryExpression", operator |-> op, left |-> l, right |-> r]
UnaryExpression(op, arg) == [type |-> "UnaryExpression", operator |-> op, argument |-> arg]
ConditionalExpression(test, a, b) ==
    [type |-> "ConditionalExpression", test |-> test, consequent |-> a, alternate |-> b]
ObjectProperty(key, value) == [type |-> "ObjectProperty", key |-> key, value |-> value]
ObjectPattern(props) == [type |-> "ObjectPattern", properties |-> props]

\* ------------------------------------------------------------ configuration
\* prep.ts: DEFAULT_INJECTED_IDS, DEFAULT_INJECTED_PREFIXES
DEFAULT_INJECTED_IDS == <<"react", "react/jsx-runtime">>
DEFAULT_INJECTED_PREFIXES == <<"@inertiajs/", "@host/">>

\* transform.ts: DEFAULTS
DEFAULTS == [runtimeKey |-> "imports", depsParam |-> "deps", onMissingDefault |-> "skip"]

DEFAULT_EXPORT_ERROR ==
    "PROBLEM!!, No known default function was found, your code either possesses NO named default export or this export format is currently not supported."

Policies == {"skip", "return-null", "throw"}

\* The options prep() hands to the transform (transformOptions), with the
\* onMissingDefault a caller of the transform may add, after the `??` defaulting
\* of fortiPrepTransform.
TransformOptions(policy) ==
    [injectedIds |-> DEFAULT_INJECTED_IDS,
     injectedPrefixes |-> DEFAULT_INJECTED_PREFIXES,
     runtimeKey |-> DEFAULTS.runtimeKey,
     depsParam |-> DEFAULTS.depsParam,
     onMissingDefault |-> policy]

\* mutant: prefixes are not consulted
shouldInject_ExactOnly(id, o) == id \in Range(o.injectedIds)

shouldInject(id, o) ==
    \/ id \in Range(o.injectedIds)
    \/ \E i \in 1..Len(o.injectedPrefixes) : StartsWith(id, o.injectedPrefixes[i])

\* spec.exported is an Identifier or a StringLiteral; both give the name
ExportedName(spec) == spec.exported

programHasDefaultExport(body) ==
    \E i \in 1..Len(body) :
        \/ body[i].type = "ExportDefaultDeclaration"
        \/ /\ body[i].type = "ExportNamedDeclaration"
           /\ Len(body[i].specifiers) > 0
           /\ \E k \in 1..Len(body[i].specifiers) :
                  ExportedName(body[i].specifiers[k]) = "default"

\* ----------------------------------------------------------- input modules
S_impLocal ==
    ImportDeclaration(<<ImportDefaultSpecifier("localThing")>>, "./local-thing.js")
S_impUtil ==
    ImportDeclaration(<<ImportNamespaceSpecifier("util")>>, "./util.js")
S_impReact ==
    ImportDeclaration(<<ImportDefaultSpecifier("React"),
                        ImportSpecifier("useMemo", "useMemo")>>, "react")
S_impReactNs ==
    ImportDeclaration(<<ImportNamespaceSpecifier("ReactNS")>>, "react")
S_impHostUi ==
    ImportDeclaration(<<ImportSpecifier("Button", "Button"),
                        ImportSpecifier("Modal", "HostModal")>>, "@host/ui")
S_impHostSide == ImportDeclaration(<<>>, "@host/ui")
S_declCard ==
    VariableDeclaration(<<
        VariableDeclarator(Identifier("Card"), ArrowFunctionExpression(<<>>, NullLiteral)),
        VariableDeclarator(Identifier("Bar"), NumericLiteral(1))>>)
S_declHelper == FunctionDeclaration(Identifier("helper"), <<>>, <<>>)
S_expDefId == ExportDefaultDeclaration(Identifier("Card"))
S_expDefFn == ExportDefaultDeclaration(FunctionDeclaration(Identifier("App"), <<>>, <<>>))
S_expDefAnon == ExportDefaultDeclaration(FunctionDeclaration(NullNode, <<>>, <<>>))
S_expDefExpr == ExportDefaultDeclaration(ArrowFunctionExpression(<<>>, NullLiteral))
S_expConst ==
    ExportNamedDeclaration(
        VariableDeclaration(<<VariableDeclarator(Identifier("meaning"), NumericLiteral(42))>>),
        <<>>, "")
S_expAsDefault == ExportNamedDeclaration(NullNode, <<ExportSpecifier("Card", "default")>>, "")
S_expAsDefaultBar ==
    ExportNamedDeclaration(NullNode,
        <<ExportSpecifier("Card", "default"), ExportSpecifier("Bar", "Bar")>>, "")
S_expBar == ExportNamedDeclaration(NullNode, <<ExportSpecifier("Bar", "Bar")>>, "")
S_expCardBar ==
    ExportNamedDeclaration(NullNode,
        <<ExportSpecifier("Card", "Card"), ExportSpecifier("Bar", "Bar")>>, "")
S_expNsDefault ==
    ExportNamedDeclaration(NullNode, <<ExportNamespaceSpecifier("default")>>, "./all.js")

Statements ==
    {S_impLocal, S_impUtil, S_impReact, S_impReactNs, S_impHostUi, S_impHostSide,
     S_declCard, S_declHelper,
     S_expDefId, S_expDefFn, S_expDefAnon, S_expDefExpr,
     S_expConst, S_expAsDefault, S_expAsDefaultBar, S_expBar, S_expCardBar,
     S_expNsDefault}

\* names a declaration node binds at the top level
DeclaredBy(decl) ==
    IF decl.type = "VariableDeclaration"
    THEN Flatten([i \in 1..Len(decl.declarations) |->
             LET id == decl.declarations[i].id
             IN IF id.type = "Identifier" THEN <<id.name>>
                ELSE [k \in 1..Len(id.properties) |-> id.properties[k].value.name]])
    ELSE IF decl.type = "FunctionDeclaration" /\ decl.id.type = "Identifier"
    THEN <<decl.id.name>>
    ELSE <<>>

\* the top-level bindings a statement introduces
BoundBy(stmt) ==
    IF stmt.type = "ImportDeclaration"
    THEN [i \in 1..Len(stmt.specifiers) |-> stmt.specifiers[i].local]
    ELSE IF stmt.type \in {"ExportNamedDeclaration", "ExportDefaultDeclaration"}
    THEN DeclaredBy(stmt.declaration)
    ELSE DeclaredBy(stmt)

\* the names a statement exports
ExportedBy(stmt) ==
    IF stmt.type = "ExportDefaultDeclaration" THEN <<"default">>
    ELSE IF stmt.type = "ExportNamedDeclaration"
    THEN DeclaredBy(stmt.declaration)
         \o [i \in 1..Len(stmt.specifiers) |-> ExportedName(stmt.specifiers[i])]
    ELSE <<>>

\* the local bindings an export statement refers to
LocalExportRefs(stmt) ==
    IF stmt.type = "ExportNamedDeclaration" /\ stmt.source = ""
    THEN {stmt.specifiers[i].local : i \in 1..Len(stmt.specifiers)}
    ELSE {}

\* What @babel/parser accepts as a module: no binding declared twice, no name
\* exported twice, every locally exported binding declared.
ParsesAsModule(file) ==
    /\ NoDuplicates(Flatten(SeqMap(BoundBy, file)))
    /\ NoDuplicates(Flatten(SeqMap(ExportedBy, file)))
    /\ \A i \in 1..Len(file) :
           LocalExportRefs(file[i]) \subseteq Range(Flatten(SeqMap(BoundBy, file)))

FilesUpTo(n) ==
    {f \in UNION {[1..k -> Statements] : k \in 0..n} : ParsesAsModule(f)}

Files == FilesUpTo(MaxStmts)

\* ------------------------------------------------- transform.ts: the plugin
\* The closure state of one fortiPrepTransform() call.
FreshPlugin ==
    [enabled |-> TRUE,
     keptImports |-> <<>>,
     keptNamedExports |-> <<>>,
     injectedImportsById |-> <<>>,
     defaultExportLocalName |-> NoName,
     returnDefaultProperty |-> FALSE]

\* injectedImportsById is a Map: its entries in insertion order
MapHas(m, id) == \E i \in 1..Len(m) : m[i].importId = id
MapGet(m, id) == m[CHOOSE i \in 1..Len(m) : m[i].importId = id].specs
MapSet(m, id, list) ==
    IF MapHas(m, id)
    THEN [i \in 1..Len(m) |->
             IF m[i].importId = id THEN [importId |-> id, specs |-> list] ELSE m[i]]
    ELSE Append(m, [importId |-> id, specs |-> list])

\* mutant: the list of an id is replaced, not appended to
captureImport_Overwrites(m, importId, entry) == MapSet(m, importId, <<entry>>)

captureImport(m, importId, entry) ==
    MapSet(m, importId, Append(IF MapHas(m, importId) THEN MapGet(m, importId) ELSE <<>>, entry))

getImportedName(spec) == spec.imported

\* the CapturedImport of one import specifier
CapturedImport(s) ==
    IF s.type = "ImportDefaultSpecifier" THEN [kind |-> "default", local |-> s.local]
    ELSE IF s.type = "ImportNamespaceSpecifier" THEN [kind |-> "namespace", local |-> s.local]
    ELSE [kind |-> "named", imported |-> getImportedName(s), local |-> s.local]

RECURSIVE CaptureSpecifiers(_, _, _)
\* for (const s of node.specifiers) captureImport(importId, ...)
CaptureSpecifiers(m, importId, specs) ==
    IF specs = <<>> THEN m
    ELSE CaptureSpecifiers(captureImport(m, importId, CapturedImport(Head(specs))),
                           importId, Tail(specs))

\* mutant: the entry pre-check never disables the plugin
ProgramEnter_NeverDisables(p, body, o) == p

\* Program.enter
ProgramEnter(p, body, o) ==
    IF ~programHasDefaultExport(body) /\ o.onMissingDefault = "skip"
    THEN [p EXCEPT !.enabled = FALSE]
    ELSE p

\* A visitor gives the closure state it leaves and `nodes`, what stands in the
\* program body where the visited node stood: <<>> after path.remove().
ImportDeclarationVisitor(p, node, o) ==
    IF ~p.enabled THEN [plugin |-> p, nodes |-> <<node>>]
    ELSE IF ~shouldInject(node.source, o)
    THEN [plugin |-> [p EXCEPT !.keptImports = Append(@, node)], nodes |-> <<>>]
    ELSE [plugin |-> [p EXCEPT !.injectedImportsById =
                                   CaptureSpecifiers(@, node.source, node.specifiers)],
          nodes |-> <<>>]

\* path.scope.generateUidIdentifier("defaultExport"); no input binding has this name
GeneratedUid == "_defaultExport"

ExportDefaultDeclarationVisitor(p, node, o) ==
    LET decl == node.declaration IN
    IF ~p.enabled THEN [plugin |-> p, nodes |-> <<node>>]
    ELSE IF decl.type = "Identifier"
    THEN [plugin |-> [p EXCEPT !.defaultExportLocalName = decl.name], nodes |-> <<>>]
    ELSE IF decl.type \in {"FunctionDeclaration", "ClassDeclaration"}
    THEN LET named == IF decl.id.type = "Identifier" THEN decl
                      ELSE [decl EXCEPT !.id = Identifier(GeneratedUid)]
         IN [plugin |-> [p EXCEPT !.defaultExportLocalName = named.id.name],
             nodes |-> <<named>>]
    ELSE [plugin |-> [p EXCEPT !.defaultExportLocalName = GeneratedUid],
          nodes |-> <<VariableDeclaration(
                        <<VariableDeclarator(Identifier(GeneratedUid), decl)>>)>>]

\* (spec as any)?.local?.name, NoName when the specifier has no local
LocalNameOf(spec) == IF "local" \in DOMAIN spec THEN spec.local ELSE NoName

RECURSIVE LastDefaultLocal(_, _)
\* the filter callback's assignments: every specifier exported as `default`
\* that has a local name overwrites defaultExportLocalName
LastDefaultLocal(name, specs) ==
    IF specs = <<>> THEN name
    ELSE LastDefaultLocal(
             IF ExportedName(Head(specs)) = "default" /\ LocalNameOf(Head(specs)) # NoName
             THEN LocalNameOf(Head(specs)) ELSE name,
             Tail(specs))

IsNotDefaultSpecifier(spec) == ExportedName(spec) # "default"

\* mutant: export declarations are not kept
KeepsNamedExport_SpecifiersOnly(node) == Len(node.specifiers) > 0

\* node.declaration || (node.specifiers && node.specifiers.length > 0)
KeepsNamedExport(node) == node.declaration # NullNode \/ Len(node.specifiers) > 0

\* mutant: no minified fallback
ExportNamedDeclarationVisitor_NoFallback(p, node, o) ==
    IF ~p.enabled THEN [plugin |-> p, nodes |-> <<node>>]
    ELSE LET node2 == [node EXCEPT !.specifiers = SelectSeq(@, IsNotDefaultSpecifier)]
             p1 == [p EXCEPT !.defaultExportLocalName = LastDefaultLocal(@, node.specifiers)]
         IN [plugin |-> IF KeepsNamedExport(node2)
                        THEN [p1 EXCEPT !.keptNamedExports = Append(@, node2)] ELSE p1,
             nodes |-> <<>>]

ExportNamedDeclarationVisitor(p, node, o) ==
    IF ~p.enabled THEN [plugin |-> p, nodes |-> <<node>>]
    ELSE
      LET hasSpecs == Len(node.specifiers) > 0
          filtered == SelectSeq(node.specifiers, IsNotDefaultSpecifier)
          foundExplicitDefault == Len(filtered) < Len(node.specifiers)
          name1 == LastDefaultLocal(p.defaultExportLocalName, node.specifiers)
          fallback == /\ hasSpecs
                      /\ ~foundExplicitDefault
                      /\ name1 = NoName
                      /\ Len(filtered) = 1
                      /\ LocalNameOf(filtered[1]) # NoName
          specs2 == IF fallback THEN <<>> ELSE filtered
          node2 == [node EXCEPT !.specifiers = specs2]
          p1 == [p EXCEPT
                   !.defaultExportLocalName =
                       IF fallback THEN LocalNameOf(filtered[1]) ELSE name1,
                   !.returnDefaultProperty = IF fallback THEN TRUE ELSE @]
          p2 == IF KeepsNamedExport(node2)
                THEN [p1 EXCEPT !.keptNamedExports = Append(@, node2)]
                ELSE p1
      IN [plugin |-> p2, nodes |-> <<>>]

\* const <name> = <init>;
ConstDecl(name, init) == VariableDeclaration(<<VariableDeclarator(Identifier(name), init)>>)

\* mutant: the `key in deps` test is left out
makeImportMapExpr_NoKeyTest(depsIdent, runtimeKey) ==
    ConditionalExpression(
        LogicalExpression("&&",
            BinaryExpression("!==", depsIdent, NullLiteral),
            BinaryExpression("===", UnaryExpression("typeof", depsIdent),
                             StringLiteral("object"))),
        MemberExpression(depsIdent, Identifier(runtimeKey), FALSE),
        LogicalExpression("||", depsIdent, EmptyObject))

makeImportMapExpr(depsIdent, runtimeKey) ==
    LET hasKey == BinaryExpression("in", StringLiteral(runtimeKey), depsIdent)
        isObj == LogicalExpression("&&",
                     BinaryExpression("!==", depsIdent, NullLiteral),
                     BinaryExpression("===", UnaryExpression("typeof", depsIdent),
                                      StringLiteral("object")))
        test == LogicalExpression("&&", isObj, hasKey)
        depsKey == MemberExpression(depsIdent, Identifier(runtimeKey), FALSE)
        fallback == LogicalExpression("||", depsIdent, EmptyObject)
    IN ConditionalExpression(test, depsKey, fallback)

importsIdent == Identifier("__imports")
defaultHelperIdent == Identifier("__default")

\* const __default = (m) => (m && typeof m === "object" && "default" in m ? m.default : m);
defaultHelperDecl ==
    ConstDecl(defaultHelperIdent.name,
        ArrowFunctionExpression(<<Identifier("m")>>,
            ConditionalExpression(
                LogicalExpression("&&",
                    LogicalExpression("&&", Identifier("m"),
                        BinaryExpression("===", UnaryExpression("typeof", Identifier("m")),
                                         StringLiteral("object"))),
                    BinaryExpression("in", StringLiteral("default"), Identifier("m"))),
                MemberExpression(Identifier("m"), Identifier("default"), FALSE),
                Identifier("m"))))

modIdent(importId) == Identifier("__m_" \o ReplaceNonIdent(importId))

IsNamedCapture(c) == c.kind = "named"
IsUnnamedCapture(c) == c.kind # "named"

\* mutant: namespace locals go through the default-unwrap helper too
BindCapture_AlwaysUnwraps(c, mod) ==
    ConstDecl(c.local, CallExpression(Identifier("__default"), <<mod>>))

\* const Local = __default(__m_xxx);   or   const Local = __m_xxx;
BindCapture(c, mod) ==
    IF c.kind = "default"
    THEN ConstDecl(c.local, CallExpression(defaultHelperIdent, <<mod>>))
    ELSE ConstDecl(c.local, mod)

NamedProperty(c) == ObjectProperty(Identifier(c.imported), Identifier(c.local))

\* the statements emitted for one entry of injectedImportsById
InjectedStmtsFor(importId, specs) ==
    LET mod == modIdent(importId)
        unnamed == SelectSeq(specs, IsUnnamedCapture)
        named == SelectSeq(specs, IsNamedCapture)
    IN <<ConstDecl(mod.name,
                   MemberExpression(importsIdent, StringLiteral(importId), TRUE))>>
       \o [i \in 1..Len(unnamed) |-> BindCapture(unnamed[i], mod)]
       \o (IF Len(named) > 0
           THEN <<VariableDeclaration(<<VariableDeclarator(
                      ObjectPattern([i \in 1..Len(named) |-> NamedProperty(named[i])]),
                      LogicalExpression("||", mod, EmptyObject))>>)>>
           ELSE <<>>)

\* mutant: no `return null` case
returnExpr_NoNullCase(p) ==
    IF p.returnDefaultProperty
    THEN MemberExpression(Identifier(p.defaultExportLocalName), Identifier("default"), FALSE)
    ELSE Identifier(p.defaultExportLocalName)

returnExpr(p) ==
    IF p.defaultExportLocalName = NoName THEN NullLiteral
    ELSE IF p.returnDefaultProperty
    THEN MemberExpression(Identifier(p.defaultExportLocalName), Identifier("default"), FALSE)
    ELSE Identifier(p.defaultExportLocalName)

\* mutant: the kept named exports are put before the factory
AssembleProgram_ExportsFirst(keptImports, wrapper, keptNamedExports) ==
    keptImports \o keptNamedExports \o <<wrapper>>

\* program.body = [...keptImports, wrapper, ...keptNamedExports]
AssembleProgram(keptImports, wrapper, keptNamedExports) ==
    keptImports \o <<wrapper>> \o keptNamedExports

\* Program.exit: `threw` when it throws path.buildCodeFrameError(DEFAULT_EXPORT_ERROR),
\* otherwise `body` is the program body it leaves.
ProgramExit(p, body, o) ==
    IF ~p.enabled THEN [threw |-> FALSE, body |-> body]
    ELSE IF p.defaultExportLocalName = NoName /\ o.onMissingDefault = "throw"
    THEN [threw |-> TRUE, body |-> body]
    ELSE
      LET depsIdent == Identifier(o.depsParam)
          importsDecl == ConstDecl(importsIdent.name, makeImportMapExpr(depsIdent, o.runtimeKey))
          m == p.injectedImportsById
          injectedStmts ==
              <<importsDecl, defaultHelperDecl>>
              \o Flatten([i \in 1..Len(m) |-> InjectedStmtsFor(m[i].importId, m[i].specs)])
          wrapperBody == injectedStmts \o body \o <<ReturnStatement(returnExpr(p))>>
          wrapper == ExportDefaultDeclaration(
                         FunctionDeclaration(NullNode, <<depsIdent>>, wrapperBody))
      IN [threw |-> FALSE,
          body |-> AssembleProgram(p.keptImports, wrapper, p.keptNamedExports)]

\* the visitor babel calls for a top-level statement
VisitNode(p, node, o) ==
    CASE node.type = "ImportDeclaration" -> ImportDeclarationVisitor(p, node, o)
      [] node.type = "ExportDefaultDeclaration" -> ExportDefaultDeclarationVisitor(p, node, o)
      [] node.type = "ExportNamedDeclaration" -> ExportNamedDeclarationVisitor(p, node, o)
      [] OTHER -> [plugin |-> p, nodes |-> <<node>>]

RECURSIVE TraverseBody(_, _, _)
\* the statements in order, each visited once; what they leave in the body
TraverseBody(p, stmts, o) ==
    IF stmts = <<>> THEN [plugin |-> p, body |-> <<>>]
    ELSE LET r == VisitNode(p, Head(stmts), o)
             rest == TraverseBody(r.plugin, Tail(stmts), o)
         IN [plugin |-> rest.plugin, body |-> r.nodes \o rest.body]

\* transformSync of one file with the plugin object in closure state p
TransformWith(p, file, o) ==
    LET t == TraverseBody(ProgramEnter(p, file, o), file, o)
    IN ProgramExit(t.plugin, t.body, o)

\* ------------------------------------------------------ JavaScript values
Undefined == [t |-> "undefined"]
Null == [t |-> "null"]
Str(x) == [t |-> "string", s |-> x]
Bool(x) == [t |-> "boolean", b |-> x]
Num(x) == [t |-> "number", n |-> x]
NoProps == [k \in {} |-> Undefined]
Obj(props) == [t |-> "object", props |-> props]
\* a function value: its own properties, and its code when the model has it
Fun(name, props, fparams, fbody) ==
    [t |-> "function", name |-> name, props |-> props, fparams |-> fparams, fbody |-> fbody]
\* a function the model knows only by name
Opaque(name) == Fun(name, NoProps, <<>>, NullNode)

TypeOf(v) == IF v.t = "null" THEN "object" ELSE v.t
Truthy(v) ==
    CASE v.t \in {"undefined", "null"} -> FALSE
      [] v.t = "boolean" -> v.b
      [] v.t = "string" -> v.s # ""
      [] v.t = "number" -> v.n # 0
      [] OTHER -> TRUE
HasProps(v) == v.t \in {"object", "function"}
\* `key in v` for an object or a function (own properties; no prototype chain)
HasKey(v, key) == HasProps(v) /\ key \in DOMAIN v.props
\* v[key], for a v that is neither null nor undefined
GetProp(v, key) == IF HasKey(v, key) THEN v.props[key] ELSE Undefined

Ok(v) == [ok |-> TRUE, v |-> v]
Err(name) == [ok |-> FALSE, v |-> Str(name)]
Bind(env, name, v) == [k \in DOMAIN env \cup {name} |-> IF k = name THEN v ELSE env[k]]

RECURSIVE Eval(_, _)
RECURSIVE Exec(_, _)
RECURSIVE BindParams(_, _, _)
RECURSIVE BindPattern(_, _, _)
RECURSIVE ExecDeclarators(_, _)

BindParams(env, params, args) ==
    IF params = <<>> THEN env
    ELSE BindParams(Bind(env, Head(params).name,
                         IF args = <<>> THEN Undefined ELSE Head(args)),
                    Tail(params), IF args = <<>> THEN <<>> ELSE Tail(args))

\* fn(...args): the completion of a call
Call(fn, args, env) ==
    IF fn.t # "function" THEN Err("TypeError")
    ELSE IF fn.fbody.type = "null" THEN Ok(Undefined)
    ELSE IF fn.fbody.type = "BlockStatement"
    THEN LET r == Exec(fn.fbody.body, BindParams(env, fn.fparams, args))
         IN IF r.status = "threw" THEN [ok |-> FALSE, v |-> r.value]
            ELSE Ok(r.value)
    ELSE Eval(fn.fbody, BindParams(env, fn.fparams, args))

\* the value of an expression in an environment (binding name -> value)
Eval(e, env) ==
    CASE e.type = "Identifier" ->
           IF e.name \in DOMAIN env THEN Ok(env[e.name]) ELSE Err("ReferenceError")
      [] e.type = "StringLiteral" -> Ok(Str(e.text))
      [] e.type = "NumericLiteral" -> Ok(Num(e.num))
      [] e.type = "NullLiteral" -> Ok(Null)
      [] e.type = "ObjectExpression" -> Ok(Obj(NoProps))
      [] e.type = "ArrowFunctionExpression" -> Ok(Fun("", NoProps, e.params, e.body))
      [] e.type = "UnaryExpression" ->
           LET a == Eval(e.argument, env)
           IN IF a.ok THEN Ok(Str(TypeOf(a.v))) ELSE a
      [] e.type = "BinaryExpression" ->
           LET l == Eval(e.left, env)
               r == Eval(e.right, env)
           IN IF ~l.ok THEN l
              ELSE IF ~r.ok THEN r
              ELSE IF e.operator = "===" THEN Ok(Bool(l.v = r.v))
              ELSE IF e.operator = "!==" THEN Ok(Bool(l.v # r.v))
              ELSE IF ~HasProps(r.v) THEN Err("TypeError")
              ELSE Ok(Bool(HasKey(r.v, l.v.s)))
      [] e.type = "LogicalExpression" ->
           LET l == Eval(e.left, env)
           IN IF ~l.ok THEN l
              ELSE IF e.operator = "&&"
              THEN (IF Truthy(l.v) THEN Eval(e.right, env) ELSE l)
              ELSE (IF Truthy(l.v) THEN l ELSE Eval(e.right, env))
      [] e.type = "ConditionalExpression" ->
           LET c == Eval(e.test, env)
           IN IF ~c.ok THEN c
              ELSE IF Truthy(c.v) THEN Eval(e.consequent, env)
              ELSE Eval(e.alternate, env)
      [] e.type = "MemberExpression" ->
           LET obj == Eval(e.object, env)
               key == IF e.computed THEN Eval(e.property, env) ELSE Ok(Str(e.property.name))
           IN IF ~obj.ok THEN obj
              ELSE IF ~key.ok THEN key
              ELSE IF obj.v.t \in {"undefined", "null"} THEN Err("TypeError")
              ELSE Ok(GetProp(obj.v, key.v.s))
      [] e.type = "CallExpression" ->
           LET f == Eval(e.callee, env)
               a == [i \in 1..Len(e.arguments) |-> Eval(e.arguments[i], env)]
           IN IF ~f.ok THEN f
              ELSE IF \E i \in 1..Len(a) : ~a[i].ok
              THEN a[CHOOSE i \in 1..Len(a) : ~a[i].ok /\ \A j \in 1..(i - 1) : a[j].ok]
              ELSE Call(f.v, [i \in 1..Len(a) |-> a[i].v], env)
      [] OTHER -> Err("SyntaxError")

\* const { key: value, ... } = v
BindPattern(env, props, v) ==
    IF props = <<>> THEN env
    ELSE BindPattern(Bind(env, Head(props).value.name, GetProp(v, Head(props).key.name)),
                     Tail(props), v)

\* the declarators of one declaration, left to right
ExecDeclarators(ds, env) ==
    IF ds = <<>> THEN [status |-> "end", value |-> Undefined, env |-> env]
    ELSE LET d == Head(ds)
             init == Eval(d.init, env)
         IN IF ~init.ok THEN [status |-> "threw", value |-> init.v, env |-> env]
            ELSE IF d.id.type = "Identifier"
            THEN ExecDeclarators(Tail(ds), Bind(env, d.id.name, init.v))
            ELSE IF init.v.t \in {"undefined", "null"}
            THEN [status |-> "threw", value |-> Str("TypeError"), env |-> env]
            ELSE ExecDeclarators(Tail(ds), BindPattern(env, d.id.properties, init.v))

\* the completion of a statement list: "returned", "threw" or "end" (fell off
\* the end), with the bindings made on the way
Exec(stmts, env) ==
    IF stmts = <<>> THEN [status |-> "end", value |-> Undefined, env |-> env]
    ELSE LET st == Head(stmts) IN
      CASE st.type = "VariableDeclaration" ->
             LET r == ExecDeclarators(st.declarations, env)
             IN IF r.status = "threw" THEN r ELSE Exec(Tail(stmts), r.env)
        [] st.type = "FunctionDeclaration" ->
             Exec(Tail(stmts),
                  Bind(env, st.id.name, Fun(st.id.name, NoProps, st.params, st.body)))
        [] st.type = "ReturnStatement" ->
             LET r == Eval(st.argument, env)
             IN [status |-> IF r.ok THEN "returned" ELSE "threw", value |-> r.v, env |-> env]
        [] OTHER ->
             \* import / export inside a function body
             [status |-> "threw", value |-> Str("SyntaxError"), env |-> env]

\* ------------------------------------------------- the emitted module at run time
D_default == Opaque("D")
\* an ESM namespace object: { default, named... }
NsModule ==
    Obj([k \in {"default", "useMemo", "Button", "Modal"} |->
            IF k = "default" THEN D_default ELSE Opaque(k)])
\* a CommonJS-like value: no `default`
CjsModule == Obj([k \in {"useMemo", "Button", "Modal"} |-> Opaque(k)])
\* a module that is a function
FnModule == Opaque("V")

MapOf(react, hostUi) ==
    Obj([k \in {"react", "@host/ui"} |-> IF k = "react" THEN react ELSE hostUi])

\* dependency maps a host may pass (import id -> module value)
DependencyMaps ==
    {Obj(NoProps),
     MapOf(NsModule, NsModule),
     MapOf(CjsModule, Null),
     MapOf(FnModule, CjsModule),
     MapOf(Null, FnModule),
     Obj([k \in {"react"} |-> NsModule]),
     \* a host module whose id is the runtime key
     Obj([k \in {"react", "imports"} |-> IF k = "react" THEN NsModule ELSE CjsModule])}

\* { [runtimeKey]: map }
Keyed(key, map) == Obj([k \in {key} |-> map])

\* the arguments the factory is called with
DepsArgs ==
    DependencyMaps
    \cup {Keyed(DEFAULTS.runtimeKey, m) : m \in DependencyMaps}
    \cup {Undefined, Null}

\* the module scope of the output: the locals of its top-level imports
RECURSIVE ModuleScope(_, _)
ModuleScope(body, env) ==
    IF body = <<>> THEN env
    ELSE IF Head(body).type = "ImportDeclaration"
    THEN LET locals == BoundBy(Head(body))
             RECURSIVE BindAll(_, _)
             BindAll(e, ls) == IF ls = <<>> THEN e
                               ELSE BindAll(Bind(e, Head(ls), Opaque(Head(ls))), Tail(ls))
         IN ModuleScope(Tail(body), BindAll(env, locals))
    ELSE ModuleScope(Tail(body), env)

IsFactory(stmt) ==
    stmt.type = "ExportDefaultDeclaration" /\ stmt.declaration.type = "FunctionDeclaration"

\* the exported factory of an output module
FactoryOf(body) == body[CHOOSE i \in 1..Len(body) : IsFactory(body[i])].declaration

\* factory(arg): the completion of the factory body
CallWrapper(body, arg) ==
    LET fn == FactoryOf(body)
    IN Exec(fn.body.body, BindParams(ModuleScope(body, NoProps), fn.params, <<arg>>))

\* ------------------------------------------- create-factory.ts: helpers
Symbol(key) == [t |-> "symbol", key |-> key]
REACT_ELEMENT_SYMBOLS == {Symbol("react.element"), Symbol("react.transitional.element")}

isObject(v) == Truthy(v) /\ TypeOf(v) = "object"
isCallable(v) == TypeOf(v) = "function"
isReactElement(v) ==
    /\ isObject(v)
    /\ GetProp(v, "$$typeof").t = "symbol"
    /\ GetProp(v, "$$typeof") \in REACT_ELEMENT_SYMBOLS

unwrapNamespaceDefault(mod) ==
    IF ~Truthy(mod) THEN mod
    ELSE IF isObject(mod) /\ HasKey(mod, "default") THEN GetProp(mod, "default")
    ELSE mod

\* mutant: the module itself is never taken as its default export
pickExport_NoUnwrap(mod, exportName) ==
    IF ~Truthy(mod) THEN Undefined
    ELSE IF isObject(mod) /\ HasKey(mod, exportName) THEN GetProp(mod, exportName)
    ELSE Undefined

pickExport(mod, exportName) ==
    IF ~Truthy(mod) THEN Undefined
    ELSE IF isObject(mod) /\ HasKey(mod, exportName) THEN GetProp(mod, exportName)
    ELSE IF exportName = "default" THEN unwrapNamespaceDefault(mod)
    ELSE Undefined

looksTaggedFactory(fn, tagKey) == GetProp(fn, tagKey) = Bool(TRUE)

\* v == null
IsNullish(v) == v.t \in {"null", "undefined"}

\* { ...a, ...b } of two property maps
Spread(a, b) == [k \in DOMAIN a \cup DOMAIN b |-> IF k \in DOMAIN b THEN b[k] ELSE a[k]]

\* the [fortiplugin-bundle-adapter] Export "..." not found in "...". Available keys: ...
ExportNotFoundError(exportName, file, mod) ==
    [kind |-> "ExportNotFound", exportName |-> exportName, file |-> file,
     keys |-> IF isObject(mod) THEN DOMAIN mod.props ELSE {}]
\* the [fortiplugin-bundle-adapter] Failed to import host URL for "...". URL: ... Error: ...
HostUrlError(id, url, msg) ==
    [kind |-> "HostUrlImportFailed", id |-> id, url |-> url, cause |-> msg]
\* the [fortiplugin-bundle-adapter] Factory call did not return a component export for "..."
NotAComponentError(file, resolved) ==
    [kind |-> "FactoryReturnedNoComponent", file |-> file,
     got |-> IF IsNullish(resolved) THEN resolved.t ELSE "ReactElement"]
\* what the picked export threw or rejected with
ThrownByExport == [kind |-> "ThrownByExport"]

\* createFactory's defaulting of its options
FactoryOptions(exportName, mode, unwrapReturnedDefault, hostUrlsOverride) ==
    [exportName |-> exportName, mode |-> mode,
     unwrapReturnedDefault |-> unwrapReturnedDefault,
     runtimeKey |-> "imports", tagKey |-> "__forti_prep_factory__",
     hostUrlsOverride |-> hostUrlsOverride]

\* step 2: { react: env.react, "react/jsx-runtime": env.jsxRuntime, ...env.imports }
BaseImports(env) ==
    Spread([k \in {"react", "react/jsx-runtime"} |->
               IF k = "react" THEN env.react ELSE env.jsxRuntime],
           env.imports)

\* step 4: { [runtimeKey]: imports, ...env.depsExtra }
\* mutant: the dependency map is written after the extras
DepsObject_MapLast(runtimeKey, imports, depsExtra) ==
    Obj(Spread(depsExtra, [k \in {runtimeKey} |-> Obj(imports)]))

DepsObject(runtimeKey, imports, depsExtra) ==
    Obj(Spread([k \in {runtimeKey} |-> Obj(imports)], depsExtra))

\* mutant: whatever the call gave is the component
ClassifyResult_NoRollback(picked, resolved, o) ==
    [threw |-> FALSE, component |-> resolved, wasFactory |-> TRUE, resolved |-> resolved]

\* steps 5: what the call's result makes of component and wasFactory; `threw`
\* when the result is no component export and mode is "factory"
ClassifyResult(picked, resolved, o) ==
    LET r == IF o.unwrapReturnedDefault /\ isObject(resolved) /\ HasKey(resolved, "default")
             THEN GetProp(resolved, "default") ELSE resolved
        looksLikeWeCalledAComponent == isReactElement(r) \/ IsNullish(r)
    IN IF ~looksLikeWeCalledAComponent
       THEN [threw |-> FALSE, component |-> r, wasFactory |-> TRUE, resolved |-> r]
       ELSE [threw |-> o.mode = "factory", component |-> picked, wasFactory |-> FALSE,
             resolved |-> r]

\* React.createElement(type, props): an element of that type with those props
createElement(type, props) ==
    Obj([k \in {"$$typeof", "type", "props"} |->
            CASE k = "$$typeof" -> Symbol("react.element")
              [] k = "type" -> type
              [] k = "props" -> Obj(props)])
\* element.props
ElementProps(element) ==
    IF HasKey(element, "props") THEN GetProp(element, "props").props ELSE NoProps
\* React.cloneElement(element, props): the element with props laid over its own
cloneElement(element, props) ==
    Obj(Spread(element.props, [k \in {"props"} |-> Obj(Spread(ElementProps(element), props))]))

\* mutant: the caller's props are laid over the host props
render_CallerPropsWin(r, react, renderProps) ==
    createElement(r.component, Spread(r.hostProps, IF IsNullish(renderProps) THEN NoProps
                                                   ELSE renderProps.props))

\* step 7: render(renderProps) of the render function r
render(r, react, renderProps) ==
    LET mergedProps == Spread(IF IsNullish(renderProps) THEN NoProps ELSE renderProps.props,
                              r.hostProps)
    IN IF isReactElement(r.component)
       THEN IF TypeOf(GetProp(react, "cloneElement")) = "function"
            THEN cloneElement(r.component, mergedProps)
            ELSE r.component
       ELSE createElement(r.component, mergedProps)

\* steps 6-7: the render function with its metadata
RenderFactory(f, c, component, wasFactory) ==
    [component |-> component, module |-> f.mod, exportName |-> c.opts.exportName,
     wasFactory |-> wasFactory, file |-> c.file, imports |-> f.imports,
     hostProps |-> Spread(c.env.hostProps, c.hostPropsOverride)]

\* ------------------------------------------------------------------- state
VARIABLES
    opts,        \* the plugin options (after defaulting)
    plugin,      \* the closure state of the plugin object
    fileNo,      \* which file of the bundle is being transformed
    input,       \* that file's program body as parsed
    program,     \* path.node.body, rewritten in place
    cursor,      \* the traversal's position in program
    phase,       \* "enter", "visit", "written", "failed", "called"
    thrown,      \* the error the transform threw
    pending,     \* the files the same plugin object has still to visit
    depsArg,     \* the argument of the factory call
    completion,  \* the completion of the factory call
    call,        \* createFactory's arguments: file, env, opts, hostPropsOverride
    frame,       \* createFactory's locals and where it stands
    fetched,     \* the urls handed to maybeImportUrl, in order
    invoked,     \* the arguments the picked export was called with, in order
    rendered,    \* the calls of the render function: their argument and their element
    outcome,     \* the promise createFactory returned
    heap,        \* the objects the resolvers' defaults refer to, by address
    resolvers,   \* the resolvers made so far: their defaults, parent and overrides
    resolveNo,   \* how many times resolve() has been called
    previous,    \* the resolve() call before the current one: its arguments and fetches
    embed,       \* one Embed: its latest props, its state (renderFn, error), its effect
    flights,     \* the resolutions the Embed's effects started, each with its cancelled flag
    shown,       \* what the Embed's last render pass returned, and when
    notified,    \* the onResolved calls, in order
    prepOptions, \* the options prep() was called with
    asked,       \* the id rollup last asked `external` about, and the answer
    listing,     \* the directory entries crawl comes to, in the order it comes to them
    visitNo,     \* the entry crawl's loop is at
    acc,         \* crawl's accumulator: the file under each key
    returned     \* the map generatePluginInputs returned

tvars == <<opts, plugin, fileNo, input, program, cursor, phase, thrown, pending,
           depsArg, completion>>

rvars == <<heap, resolvers, resolveNo, previous>>

evars == <<embed, flights, shown, notified>>

cvars == <<listing, visitNo, acc, returned>>

pvars == <<prepOptions, asked, cvars>>

fvars == <<call, frame, fetched, invoked, rendered, outcome, rvars, evars, pvars>>

\* what a createFactory call has no reference to
elsewhere == <<tvars, resolvers, resolveNo, previous, evars, pvars>>

vars == <<tvars, fvars>>

NoFrame ==
    [pc |-> "idle", mod |-> Undefined, picked |-> Undefined, imports |-> NoProps,
     next |-> 1, deps |-> Undefined, importsAt |-> 0, result |-> [kind |-> "none", v |-> Undefined]]
NoFactoryError == [kind |-> "none"]
NoRender == [file |-> ""]
Unsettled == [status |-> "pending", error |-> NoFactoryError, render |-> NoRender]
Rejected(err) == [status |-> "rejected", error |-> err, render |-> NoRender]
Fulfilled(r) == [status |-> "fulfilled", error |-> NoFactoryError, render |-> r]
NoCall == [file |-> ""]
NoPrevious == [file |-> ""]
NoEmbed == [mounted |-> FALSE]
NothingShown == [kind |-> "none"]
NoPrep == [given |-> FALSE]
NotAsked == [id |-> ""]

NothingReturned == [given |-> FALSE]

\* generatePluginInputs() has not been called
IdleCrawl ==
    /\ listing = <<>>
    /\ visitNo = 1
    /\ acc = <<>>
    /\ returned = NothingReturned

\* prep() has not been called
IdlePrep ==
    /\ prepOptions = NoPrep
    /\ asked = NotAsked
    /\ IdleCrawl

\* no createFactory call is under way
IdleFactory ==
    /\ call = NoCall
    /\ frame = NoFrame
    /\ fetched = <<>>
    /\ invoked = <<>>
    /\ rendered = <<>>
    /\ outcome = Unsettled
    /\ heap = <<>>
    /\ resolvers = <<>>
    /\ resolveNo = 0
    /\ previous = NoPrevious
    /\ embed = NoEmbed
    /\ flights = <<>>
    /\ shown = NothingShown
    /\ notified = <<>>

NoError == [message |-> "", file |-> 0]
NoCompletion == [status |-> "none", value |-> Undefined, env |-> NoProps]

\* the transform is not running
IdleTransform ==
    /\ opts = TransformOptions("skip")
    /\ plugin = FreshPlugin
    /\ fileNo = 1
    /\ input = <<>>
    /\ program = <<>>
    /\ cursor = 1
    /\ phase = "idle"
    /\ thrown = NoError
    /\ pending = <<>>
    /\ depsArg = Undefined
    /\ completion = NoCompletion

InitTransform(files, rest) ==
    /\ opts \in {TransformOptions(pol) : pol \in Policies}
    /\ plugin = FreshPlugin
    /\ fileNo = 1
    /\ input \in files
    /\ program = input
    /\ cursor = 1
    /\ phase = "enter"
    /\ thrown = NoError
    /\ pending \in rest
    /\ depsArg = Undefined
    /\ completion = NoCompletion
    /\ IdleFactory
    /\ IdlePrep

\* babel enters the Program node
EnterProgram ==
    /\ phase = "enter"
    /\ plugin' = ProgramEnter(plugin, program, opts)
    /\ phase' = "visit"
    /\ UNCHANGED <<fvars, opts, fileNo, input, program, cursor, thrown, pending, depsArg, completion>>

Node == program[cursor]

\* the traversal puts `r.nodes` where the visited node stood and moves past them
Visited(r) ==
    /\ plugin' = r.plugin
    /\ program' = SubSeq(program, 1, cursor - 1) \o r.nodes
                  \o SubSeq(program, cursor + 1, Len(program))
    /\ cursor' = cursor + Len(r.nodes)
    /\ UNCHANGED <<fvars, opts, fileNo, input, phase, thrown, pending, depsArg, completion>>

Visiting(type) == phase = "visit" /\ cursor <= Len(program) /\ Node.type = type

VisitImportDeclaration ==
    /\ Visiting("ImportDeclaration")
    /\ Visited(ImportDeclarationVisitor(plugin, Node, opts))

VisitExportDefaultDeclaration ==
    /\ Visiting("ExportDefaultDeclaration")
    /\ Visited(ExportDefaultDeclarationVisitor(plugin, Node, opts))

VisitExportNamedDeclaration ==
    /\ Visiting("ExportNamedDeclaration")
    /\ Visited(ExportNamedDeclarationVisitor(plugin, Node, opts))

\* a statement no visitor is registered for
VisitOther ==
    /\ phase = "visit" /\ cursor <= Len(program)
    /\ Node.type \notin {"ImportDeclaration", "ExportDefaultDeclaration",
                         "ExportNamedDeclaration"}
    /\ Visited([plugin |-> plugin, nodes |-> <<Node>>])

\* babel leaves the Program node; transformSync returns the code or throws
ExitProgram ==
    /\ phase = "visit" /\ cursor > Len(program)
    /\ LET r == ProgramExit(plugin, program, opts)
       IN /\ program' = r.body
          /\ phase' = IF r.threw THEN "failed" ELSE "written"
          /\ thrown' = IF r.threw THEN [message |-> DEFAULT_EXPORT_ERROR, file |-> fileNo]
                       ELSE thrown
          \* defaultExportLocalName = null when it was falsy
          /\ plugin' = plugin
    /\ UNCHANGED <<fvars, opts, fileNo, input, cursor, pending, depsArg, completion>>

\* the host calls the factory of a rewritten module
CallFactory ==
    /\ phase = "written" /\ plugin.enabled
    /\ \E arg \in DepsArgs :
          /\ depsArg' = arg
          /\ completion' = CallWrapper(program, arg)
    /\ phase' = "called"
    /\ UNCHANGED <<fvars, opts, plugin, fileNo, input, program, cursor, thrown, pending>>

\* writeBundle goes on to the next entry chunk with the same plugin object
NextFile ==
    /\ phase = "written" /\ pending # <<>>
    /\ input' = Head(pending)
    /\ program' = Head(pending)
    /\ pending' = Tail(pending)
    /\ fileNo' = fileNo + 1
    /\ cursor' = 1
    /\ phase' = "enter"
    /\ UNCHANGED <<fvars, opts, plugin, thrown, depsArg, completion>>

Traverse ==
    \/ EnterProgram
    \/ VisitImportDeclaration
    \/ VisitExportDefaultDeclaration
    \/ VisitExportNamedDeclaration
    \/ VisitOther
    \/ ExitProgram

\* one file, one plugin object
Init == InitTransform(Files, {<<>>})
Next == Traverse
Spec == Init /\ [][Next]_vars

\* one file, one plugin object, then the host calls the emitted factory
CallFiles == FilesUpTo(MaxCallStmts)
InitCall == InitTransform(CallFiles, {<<>>})
NextCall == Traverse \/ CallFactory
SpecCall == InitCall /\ [][NextCall]_vars

\* two files visited by one plugin object
SharedFiles == FilesUpTo(MaxSharedStmts)
InitShared == InitTransform(SharedFiles, {<<f>> : f \in SharedFiles})
NextShared == Traverse \/ NextFile
SpecShared == InitShared /\ [][NextShared]_vars

\* export * as all from "./all.js": one ExportNamespaceSpecifier, which has no local
S_expNs ==
    ExportNamedDeclaration(NullNode, <<ExportNamespaceSpecifier("all")>>, "./all.js")

\* imports of two host modules whose ids differ in one character
S_impHostUiButton ==
    ImportDeclaration(<<ImportDefaultSpecifier("SlashButton")>>, "@host/ui/button")
S_impHostUiDashButton ==
    ImportDeclaration(<<ImportDefaultSpecifier("DashButton")>>, "@host/ui-button")

\* one file, one plugin object, the files with `export * as` re-exports and
\* with imports of host sub-modules among them
PassFiles ==
    {f \in UNION {[1..k -> Statements \cup {S_expNs, S_impHostUiButton, S_impHostUiDashButton}] :
                     k \in 0..MaxCallStmts} :
        ParsesAsModule(f)}
InitPass == InitTransform(PassFiles, {<<>>})
NextPass == Traverse
SpecPass == InitPass /\ [][NextPass]_vars

\* ------------------------------------------- utils/generate-plugin-inputs.ts
\* how many directory entries a crawl comes to
MaxEntries == 3

\* EXT_PATTERN = /\.(tsx?|jsx?)$/i, for the extensions of the entries below
Extensions == <<".tsx", ".ts", ".jsx", ".js">>
EndsWith(s, e) == Len(e) <= Len(s) /\ SubSeq(s, Len(s) - Len(e) + 1, Len(s)) = e
HasExt(item) == \E i \in 1..Len(Extensions) : EndsWith(item, Extensions[i])
\* item.replace(EXT_PATTERN, "")
StripExt(item) ==
    IF ~HasExt(item) THEN item
    ELSE LET e == Extensions[CHOOSE i \in 1..Len(Extensions) :
                                /\ EndsWith(item, Extensions[i])
                                /\ \A j \in 1..Len(Extensions) :
                                      EndsWith(item, Extensions[j])
                                         => Len(Extensions[j]) <= Len(Extensions[i])]
         IN SubSeq(item, 1, Len(item) - Len(e))

\* /index$/i matches these spellings
IndexSpellings == {"index", "Index", "INDEX"}
\* /(^|[\\/])index$/i
IsIndexPath(relNoExt) ==
    \E w \in IndexSpellings : relNoExt = w \/ EndsWith(relNoExt, "/" \o w)

RECURSIVE JoinSegments(_, _, _)
\* split("/").filter(Boolean).join("."): `seg` is the segment being read,
\* `out` the segments joined so far
JoinSegments(s, seg, out) ==
    LET push == IF seg = "" THEN out ELSE IF out = "" THEN seg ELSE out \o "." \o seg
    IN IF s = "" THEN push
       ELSE IF SubSeq(s, 1, 1) = "/" THEN JoinSegments(SubSeq(s, 2, Len(s)), "", push)
       ELSE JoinSegments(SubSeq(s, 2, Len(s)), seg \o SubSeq(s, 1, 1), out)

\* mutant: the index segment is never collapsed
pathToKey_NeverCollapses(relNoExt, collapseIndex) == JoinSegments(relNoExt, "", "")

pathToKey(relNoExt, collapseIndex) ==
    LET normalized ==
            IF collapseIndex /\ \E w \in IndexSpellings : EndsWith(relNoExt, "/" \o w)
            THEN SubSeq(relNoExt, 1, Len(relNoExt) - 6)
            ELSE relNoExt
        key == JoinSegments(normalized, "", "")
    IN IF key = "" THEN "index" ELSE key

\* `${i}` for the counters the suffix loops reach
Digits == <<"1", "2", "3", "4", "5", "6", "7", "8", "9">>
\* the first name__i, i = 2, 3, ..., that is not a key of acc
FirstFree(a, name) ==
    name \o "__" \o Digits[CHOOSE i \in 2..9 :
                              /\ (name \o "__" \o Digits[i]) \notin DOMAIN a
                              /\ \A j \in 2..(i - 1) : (name \o "__" \o Digits[j]) \in DOMAIN a]

\* the key one iteration of crawl's loop stores `full` under
KeyFor(a, full) ==
    LET relNoExt == StripExt(full)
        preferred == pathToKey(relNoExt, TRUE)
        explicit == pathToKey(relNoExt, FALSE)
    IN IF preferred \in DOMAIN a /\ a[preferred] # full
       THEN IF IsIndexPath(relNoExt)
            THEN IF explicit \notin DOMAIN a THEN explicit ELSE FirstFree(a, explicit)
            ELSE FirstFree(a, preferred)
       ELSE preferred

\* the entries under the source root: relative paths
appEntryName == "app.tsx"
appEntryKey == "__app_entry"
Entries ==
    {"foo.tsx", "foo/index.tsx", "foo/index.ts", "foo.index.tsx", "a/b.tsx", "a.b.tsx",
     "index.tsx", "__app_entry.tsx", "README.md", appEntryName}

\* the directory an entry is in: "" for the root
RECURSIVE DirOf(_)
DirOf(full) ==
    IF full = "" THEN ""
    ELSE IF SubSeq(full, Len(full), Len(full)) = "/" THEN SubSeq(full, 1, Len(full) - 1)
    ELSE DirOf(SubSeq(full, 1, Len(full) - 1))

\* crawl descends into a directory when it comes to it and leaves it when it
\* has read it: the entries of a directory stand together
DepthFirst(seq) ==
    \A i, k \in 1..Len(seq) :
        (i < k /\ DirOf(seq[i]) # "" /\ DirOf(seq[i]) = DirOf(seq[k]))
           => \A j \in i..k : DirOf(seq[j]) = DirOf(seq[i])

\* the orders readdirSync can give the entries in
Listings ==
    {seq \in UNION {[1..n -> Entries] : n \in 0..MaxEntries} :
        NoDuplicates(seq) /\ DepthFirst(seq)}

\* generatePluginInputs(srcRoot) has been called and crawl stands before its first entry
InitCrawl ==
    /\ IdleTransform
    /\ IdleFactory
    /\ prepOptions = NoPrep
    /\ asked = NotAsked
    /\ listing \in Listings
    /\ visitNo = 1
    /\ acc = <<>>
    /\ returned = NothingReturned

Entry == listing[visitNo]

\* an entry that is not a source file, or is the generated app entry: continue
SkipEntry ==
    /\ visitNo <= Len(listing)
    /\ ~HasExt(Entry) \/ Entry = appEntryName
    /\ visitNo' = visitNo + 1
    /\ UNCHANGED <<tvars, call, frame, fetched, invoked, rendered, outcome, rvars, evars,
                   prepOptions, asked, listing, acc, returned>>

\* one iteration of crawl's loop for a source file: acc[name] = full
StoreEntry ==
    /\ visitNo <= Len(listing)
    /\ HasExt(Entry) /\ Entry # appEntryName
    /\ acc' = Spread(acc, [k \in {KeyFor(acc, Entry)} |-> Entry])
    /\ visitNo' = visitNo + 1
    /\ UNCHANGED <<tvars, call, frame, fetched, invoked, rendered, outcome, rvars, evars,
                   prepOptions, asked, listing, returned>>

\* crawl has returned: return { ...inputs, [appEntryKey]: appEntryAbsPath }
ReturnInputs ==
    /\ visitNo > Len(listing)
    /\ ~returned.given
    /\ returned' = [given |-> TRUE, v |-> Spread(acc, [k \in {appEntryKey} |-> appEntryName])]
    /\ UNCHANGED <<tvars, call, frame, fetched, invoked, rendered, outcome, rvars, evars,
                   prepOptions, asked, listing, visitNo, acc>>

NextCrawl == SkipEntry \/ StoreEntry \/ ReturnInputs

\* one call of generatePluginInputs on a source root
SpecCrawl == InitCrawl /\ [][NextCrawl]_vars

\* ------------------------------------------------------------ vite/prep.ts
\* an optional field of an options object
NotGiven == [given |-> FALSE]
Opt(v) == [given |-> TRUE, v |-> v]
\* x ?? d
OrDefault(x, d) == IF x.given THEN x.v ELSE d

\* the options a build config calls prep() with
PrepOptions ==
    [injectedIds : {NotGiven, Opt(<<>>), Opt(<<"react", "lodash">>)},
     injectedPrefixes : {NotGiven, Opt(<<>>), Opt(<<"@host/", "./">>)},
     onMissingDefault : {NotGiven} \cup {Opt(pol) : pol \in Policies}]

\* prep(): the transformOptions object of its closure
prep(options) ==
    [injectedIds |-> Opt(OrDefault(options.injectedIds, DEFAULT_INJECTED_IDS)),
     injectedPrefixes |-> Opt(OrDefault(options.injectedPrefixes, DEFAULT_INJECTED_PREFIXES)),
     runtimeKey |-> Opt("imports"),
     depsParam |-> Opt("deps"),
     onMissingDefault |-> NotGiven]

\* prep.ts shouldInject(id, transformOptions), the `external` predicate of config()
external(id, transformOptions) ==
    LET ids == OrDefault(transformOptions.injectedIds, <<>>)
        prefixes == OrDefault(transformOptions.injectedPrefixes, <<>>)
    IN IF \E i \in 1..Len(ids) : ids[i] = id THEN TRUE
       ELSE \E i \in 1..Len(prefixes) : StartsWith(id, prefixes[i])

\* fortiPrepTransform(_api, rawOpts): the opts of the plugin object; the
\* classifier reads injectedIds ?? [] and injectedPrefixes ?? []
fortiPrepTransform(rawOpts) ==
    [injectedIds |-> OrDefault(rawOpts.injectedIds, <<>>),
     injectedPrefixes |-> OrDefault(rawOpts.injectedPrefixes, <<>>),
     runtimeKey |-> OrDefault(rawOpts.runtimeKey, DEFAULTS.runtimeKey),
     depsParam |-> OrDefault(rawOpts.depsParam, DEFAULTS.depsParam),
     onMissingDefault |-> OrDefault(rawOpts.onMissingDefault, DEFAULTS.onMissingDefault)]

\* the ids rollup asks `external` about
ImportIds ==
    {"react", "react/jsx-runtime", "react-dom", "lodash", "@host/ui", "@host", "@inertiajs/react",
     "./util.js", "x/@host/ui"}

\* the entry chunks rollup emits
PrepChunks == {f \in FilesUpTo(2) : f # <<>> /\ f[1].type = "ImportDeclaration"}

\* prep(options) has been called; the build has not started
InitPrep ==
    /\ prepOptions \in PrepOptions
    /\ asked = NotAsked
    /\ opts = fortiPrepTransform(prep(prepOptions))
    /\ plugin = FreshPlugin
    /\ fileNo = 1
    /\ input \in PrepChunks
    /\ program = input
    /\ cursor = 1
    /\ phase = "enter"
    /\ thrown = NoError
    /\ pending = <<>>
    /\ depsArg = Undefined
    /\ completion = NoCompletion
    /\ IdleFactory
    /\ IdleCrawl

\* rollup resolves an import: build.rollupOptions.external(id)
External ==
    /\ phase = "enter"
    /\ \E id \in ImportIds :
          asked' = [id |-> id, external |-> external(id, prep(prepOptions))]
    /\ UNCHANGED <<tvars, call, frame, fetched, invoked, rendered, outcome, rvars, evars,
                   prepOptions, cvars>>

\* writeBundle: transformSync of the entry chunk with [fortiPrepTransform, transformOptions]
NextPrep == External \/ Traverse

\* a build with the vite plugin: the bundling, then the rewrite of an entry chunk
SpecPrep == InitPrep /\ [][NextPrep]_vars


\* ------------------------------------------------- createFactory, step by step
Widget == Opaque("Widget")
TaggedFactory == Fun("factory", [k \in {"__forti_prep_factory__"} |-> Bool(TRUE)], <<>>, NullNode)
ReactElement == Obj([k \in {"$$typeof"} |-> Symbol("react.element")])
Thenable == Obj([k \in {"then"} |-> Opaque("then")])
HostUi == Obj([k \in {"Button"} |-> Opaque("Button")])
\* the module namespace a host url gives
HostModule(url) == Obj([k \in {"default"} |-> Opaque(url)])

\* the module namespaces import(file) can give
PluginModules ==
    { Obj([k \in {"default"} |-> Widget]),
      Obj([k \in {"default"} |-> TaggedFactory]),
      Obj([k \in {"default", "Widget"} |-> IF k = "default" THEN TaggedFactory ELSE Widget]),
      Obj([k \in {"Widget"} |-> Widget]),
      Obj([k \in {"default"} |-> Null]),
      Obj([k \in {"default"} |-> ReactElement]),
      Obj(NoProps) }

\* what import(file) can give for each file
ModulesAt(file) ==
    IF file = "./plugin.js" THEN PluginModules
    ELSE {Obj([k \in {"default"} |-> Opaque(file)])}

ExportNames == {"default", "Widget"}
Modes == {"auto", "factory", "component"}
HostIds == {"@host/ui", "@host/icons", "react"}
UrlOf(id) == "http://localhost:5173/" \o id

\* Object.entries(env.hostUrls): entries with distinct ids, in insertion order
HostUrlLists ==
    { SeqMap(LAMBDA id : [id |-> id, url |-> UrlOf(id)], ids) :
        ids \in { q \in UNION { [1..n -> HostIds] : n \in 0..MaxHostUrls } : NoDuplicates(q) } }

\* env.depsExtra: none, a host flag, and an object that has an `imports` key too
DepsExtras ==
    { NoProps, [k \in {"flags"} |-> Str("on")],
      [k \in {"flags", "imports"} |-> IF k = "flags" THEN Str("on") ELSE Str("mine")] }

Envs ==
    { [react |-> Obj([k \in {"createElement", "cloneElement"} |-> Opaque(k)]),
       jsxRuntime |-> Obj([k \in {"jsx"} |-> Opaque("jsx")]),
       imports |-> imports, hostUrls |-> hostUrls, hostProps |-> hostProps,
       depsExtra |-> depsExtra] :
        imports \in {NoProps, [k \in {"@host/ui"} |-> HostUi],
                     [k \in {"react"} |-> Obj([j \in {"createElement"} |-> Opaque("h")])]},
        hostUrls \in HostUrlLists,
        hostProps \in {NoProps, [k \in {"theme"} |-> Str("dark")]},
        depsExtra \in DepsExtras }

\* what calling the picked export can do: throw, or return one of these
ReturnValues ==
    { Widget, Obj([k \in {"default"} |-> Widget]), Obj([k \in {"default"} |-> Null]),
      ReactElement, Null, Undefined, Thenable }
\* what a returned promise can resolve with
ResolvedValues == ReturnValues \ {Thenable}

IsThenable(v) == Truthy(v) /\ HasProps(v) /\ TypeOf(GetProp(v, "then")) = "function"

\* createFactory(file, env, opts, hostPropsOverride) has been called and awaits import(file)
InitFactory ==
    /\ IdleTransform
    /\ call \in { [file |-> "./plugin.js", env |-> env,
                   opts |-> FactoryOptions(exportName, mode, unwrap, override),
                   hostPropsOverride |-> hostPropsOverride, importsAt |-> 0] :
                     env \in Envs, exportName \in ExportNames, mode \in Modes,
                     unwrap \in BOOLEAN, override \in BOOLEAN,
                     hostPropsOverride \in {NoProps, [k \in {"theme"} |-> Str("light")]} }
    /\ frame = [NoFrame EXCEPT !.pc = "import"]
    /\ fetched = <<>>
    /\ invoked = <<>>
    /\ rendered = <<>>
    /\ outcome = Unsettled
    /\ heap = <<>>
    /\ resolvers = <<>>
    /\ resolveNo = 0
    /\ previous = NoPrevious
    /\ embed = NoEmbed
    /\ flights = <<>>
    /\ shown = NothingShown
    /\ notified = <<>>
    /\ IdlePrep

\* mutant: the dependency map is env.imports itself, not a new object
ImportsObject_EnvImports(c) == c.importsAt

\* where `imports` of step 2 lives: 0, a new object of the call's own (held in
\* frame.imports), or the address of an object the resolvers refer to
ImportsObject(c) == 0

\* step 1: import(file) resolves; the export is picked, or the call rejects
ImportFile ==
    /\ frame.pc = "import"
    /\ \E mod \in ModulesAt(call.file) :
          LET picked == pickExport(mod, call.opts.exportName)
          IN IF IsNullish(picked)
             THEN /\ frame' = [frame EXCEPT !.pc = "done", !.mod = mod, !.picked = picked]
                  /\ outcome' = Rejected(ExportNotFoundError(call.opts.exportName, call.file, mod))
             ELSE /\ frame' = [frame EXCEPT !.pc = "hostUrls", !.mod = mod, !.picked = picked,
                                           !.imports = BaseImports(call.env),
                                           !.importsAt = ImportsObject(call)]
                  /\ outcome' = outcome
    /\ UNCHANGED <<elsewhere, heap, call, fetched, invoked, rendered>>

\* step 1: import(file) rejects
ImportFileFails ==
    /\ frame.pc = "import"
    /\ frame' = [frame EXCEPT !.pc = "done"]
    /\ outcome' = Rejected([kind |-> "ImportFailed", file |-> call.file])
    /\ UNCHANGED <<elsewhere, heap, call, fetched, invoked, rendered>>

HostUrlEntry == call.env.hostUrls[frame.next]
AtHostUrl == frame.pc = "hostUrls" /\ frame.next <= Len(call.env.hostUrls)
\* mutant: hostUrlsOverride is not consulted
SkipsHostUrl_IgnoresOverride == HostUrlEntry.id \in DOMAIN frame.imports
SkipsHostUrl == HostUrlEntry.id \in DOMAIN frame.imports /\ ~call.opts.hostUrlsOverride

\* step 3: the id is already in the map and override is off
SkipHostUrl ==
    /\ AtHostUrl /\ SkipsHostUrl
    /\ frame' = [frame EXCEPT !.next = @ + 1]
    /\ UNCHANGED <<elsewhere, heap, call, fetched, invoked, rendered, outcome>>

\* step 3: maybeImportUrl(url) is called and awaited
FetchHostUrl ==
    /\ AtHostUrl /\ ~SkipsHostUrl
    /\ fetched' = Append(fetched, HostUrlEntry.url)
    /\ frame' = [frame EXCEPT !.pc = "fetching"]
    /\ UNCHANGED <<elsewhere, heap, call, invoked, rendered, outcome>>

\* step 3: the host url's module arrives
HostUrlResolves ==
    /\ frame.pc = "fetching"
    /\ frame' = [frame EXCEPT !.pc = "hostUrls", !.next = @ + 1,
                              !.imports = Spread(@, [k \in {HostUrlEntry.id} |->
                                                        HostModule(HostUrlEntry.url)])]
    \* imports[id] = ... writes to the object `imports` is
    /\ heap' = IF frame.importsAt = 0 THEN heap
               ELSE [heap EXCEPT ![frame.importsAt] =
                        Spread(@, [k \in {HostUrlEntry.id} |-> HostModule(HostUrlEntry.url)])]
    /\ UNCHANGED <<elsewhere, call, fetched, invoked, rendered, outcome>>

\* step 3: the host url cannot be imported
HostUrlRejects ==
    /\ frame.pc = "fetching"
    /\ frame' = [frame EXCEPT !.pc = "done"]
    /\ outcome' = Rejected(HostUrlError(HostUrlEntry.id, HostUrlEntry.url, "Failed to fetch"))
    /\ UNCHANGED <<elsewhere, heap, call, fetched, invoked, rendered>>

\* mutant: the export is taken up before the loop over hostUrls has ended
HostUrlsDone_Early == frame.pc = "hostUrls"
HostUrlsDone == frame.pc = "hostUrls" /\ frame.next > Len(call.env.hostUrls)
\* mutant: mode "component" does not keep a callable export from being called
CallsExport_IgnoresMode == isCallable(frame.picked)
CallsExport == call.opts.mode # "component" /\ isCallable(frame.picked)

\* what the call of the picked export did: it threw (or its promise rejected),
\* or it gave a value
Threw == [kind |-> "threw", v |-> Undefined]
Gave(v) == [kind |-> "gave", v |-> v]

\* steps 6-7 with the component settled
Returns(component, wasFactory) ==
    /\ frame' = [frame EXCEPT !.pc = "done"]
    /\ outcome' = Fulfilled(RenderFactory(frame, call, component, wasFactory))

\* step 5 after the call did `result`: classify `resolved`, then steps 6-7
Classified(result, resolved) ==
    LET r == ClassifyResult(frame.picked, resolved, call.opts)
    IN /\ frame' = [frame EXCEPT !.pc = "done", !.result = result]
       /\ outcome' = IF r.threw
                     THEN Rejected(NotAComponentError(call.file, r.resolved))
                     ELSE Fulfilled(RenderFactory(frame, call, r.component, r.wasFactory))

\* step 5 after the call gave `resolved`
Classifies(resolved) == Classified(Gave(resolved), resolved)

\* step 5 when the call threw or its promise rejected
Catches ==
    IF call.opts.mode = "factory"
    THEN /\ frame' = [frame EXCEPT !.pc = "done", !.result = Threw]
         /\ outcome' = Rejected(ThrownByExport)
    ELSE Classified(Threw, Undefined)

\* steps 4-7: the picked export is the component as it is
TakeAsComponent ==
    /\ HostUrlsDone /\ ~CallsExport
    /\ Returns(frame.picked, FALSE)
    /\ UNCHANGED <<elsewhere, heap, call, fetched, invoked, rendered>>

\* steps 4-5: the picked export is called with deps and returns or throws
InvokeExport ==
    /\ HostUrlsDone /\ CallsExport
    /\ LET deps == DepsObject(call.opts.runtimeKey, frame.imports, call.env.depsExtra)
       IN /\ invoked' = Append(invoked, deps)
          /\ \/ Catches
             \/ \E v \in ReturnValues :
                   IF IsThenable(v)
                   THEN /\ frame' = [frame EXCEPT !.pc = "awaiting", !.deps = deps]
                        /\ outcome' = outcome
                   ELSE Classifies(v)
    /\ UNCHANGED <<elsewhere, heap, call, fetched, rendered>>

\* step 5: the promise the picked export returned settles
ExportPromiseSettles ==
    /\ frame.pc = "awaiting"
    /\ \/ Catches
       \/ \E v \in ResolvedValues : Classifies(v)
    /\ UNCHANGED <<elsewhere, heap, call, fetched, invoked, rendered>>

\* what the host passes to render(): nothing, or props of its own
RenderArgs ==
    {Undefined, Obj([k \in {"theme", "title"} |-> IF k = "theme" THEN Str("own") ELSE Str("Hello")])}

\* the host calls the render function createFactory returned
Render ==
    /\ outcome.status = "fulfilled"
    /\ Len(rendered) < MaxRenders
    /\ \E renderProps \in RenderArgs :
          rendered' = Append(rendered, [renderProps |-> renderProps,
                                        element |-> render(outcome.render, call.env.react,
                                                           renderProps)])
    /\ UNCHANGED <<elsewhere, heap, call, frame, fetched, invoked, outcome>>

NextFactory ==
    \/ Render
    \/ ImportFile
    \/ ImportFileFails
    \/ SkipHostUrl
    \/ FetchHostUrl
    \/ HostUrlResolves
    \/ HostUrlRejects
    \/ TakeAsComponent
    \/ InvokeExport
    \/ ExportPromiseSettles

\* one call of createFactory
SpecFactory == InitFactory /\ [][NextFactory]_vars

\* ------------------------------------------------------- create-resolver.ts
\* An object the resolvers' defaults refer to is a cell of `heap`, named by its
\* address; address 0 is undefined. Records are property maps, except hostUrls,
\* whose key order Object.entries reads: a sequence of [id, url] entries.
\* What the host passes as overrides is read only and given by value.
Absent == [given |-> FALSE]
Given(v) == [given |-> TRUE, v |-> v]

\* a ?? {}
Deref(h, a) == IF a = 0 THEN NoProps ELSE h[a]
DerefEntries(h, a) == IF a = 0 THEN <<>> ELSE h[a]
\* b ?? {}
OrEmpty(b) == IF b.given THEN b.v ELSE NoProps
OrNoEntries(b) == IF b.given THEN b.v ELSE <<>>

\* {...a, ...b} with the key order kept: a's keys in a's order, b's value where
\* b has the key, then b's other keys in b's order
SpreadEntries(a, b) ==
    LET ids(q) == {q[k].id : k \in 1..Len(q)}
        over(e) == IF e.id \in ids(b) THEN CHOOSE x \in Range(b) : x.id = e.id ELSE e
    IN SeqMap(over, a) \o SelectSeq(b, LAMBDA e : e.id \notin ids(a))

\* mutant: b is assigned into a, and a is returned
mergeRecord_AssignsIntoBase(h, a, b) ==
    IF a = 0 THEN [heap |-> Append(h, OrEmpty(b)), at |-> Len(h) + 1]
    ELSE [heap |-> [h EXCEPT ![a] = Spread(@, OrEmpty(b))], at |-> a]

\* mergeRecord(a, b): a new object {...(a ?? {}), ...(b ?? {})}
mergeRecord(h, a, b) ==
    [heap |-> Append(h, Spread(Deref(h, a), OrEmpty(b))), at |-> Len(h) + 1]

\* mergeRecord(base.hostUrls, patch.hostUrls)
mergeEntries(h, a, b) ==
    [heap |-> Append(h, SpreadEntries(DerefEntries(h, a), OrNoEntries(b))), at |-> Len(h) + 1]

mergeEnv(h, base, patch) ==
    IF ~patch.given THEN [heap |-> h, env |-> base]
    ELSE LET i == mergeRecord(h, base.imports, patch.v.imports)
             u == mergeEntries(i.heap, base.hostUrls, patch.v.hostUrls)
             d == mergeRecord(u.heap, base.depsExtra, patch.v.depsExtra)
         IN [heap |-> d.heap,
             env |-> [react |-> IF patch.v.react.given THEN patch.v.react.v ELSE base.react,
                      jsxRuntime |-> IF patch.v.jsxRuntime.given THEN patch.v.jsxRuntime.v
                                     ELSE base.jsxRuntime,
                      imports |-> i.at, hostUrls |-> u.at, depsExtra |-> d.at,
                      \* hostProps: base.hostProps comes after ...patch
                      hostProps |-> base.hostProps]]

mergeOptions(h, base, patch) ==
    [heap |-> Append(h, Spread(Deref(h, base), OrEmpty(patch))), at |-> Len(h) + 1]

\* createPluginResolver(config): its defaults
createPluginResolver(h, config) ==
    LET o == IF config.options = 0 THEN [heap |-> Append(h, NoProps), at |-> Len(h) + 1]
             ELSE [heap |-> h, at |-> config.options]
        p == IF config.hostProps = 0 THEN [heap |-> Append(o.heap, NoProps), at |-> Len(o.heap) + 1]
             ELSE [heap |-> o.heap, at |-> config.hostProps]
    IN [heap |-> p.heap,
        defaults |-> [env |-> config.env, options |-> o.at, hostProps |-> p.at]]

\* mutant: with() leaves the overrides' host props out
withOverrides_NoHostProps(h, defaults, overrides) ==
    LET e == mergeEnv(h, defaults.env, overrides.env)
        o == mergeOptions(e.heap, defaults.options, overrides.options)
    IN createPluginResolver(o.heap, [env |-> e.env, options |-> o.at,
                                     hostProps |-> defaults.hostProps])

withOverrides(h, defaults, overrides) ==
    LET e == mergeEnv(h, defaults.env, overrides.env)
        o == mergeOptions(e.heap, defaults.options, overrides.options)
        p == mergeRecord(o.heap, defaults.hostProps, overrides.hostProps)
    IN createPluginResolver(p.heap, [env |-> e.env, options |-> o.at, hostProps |-> p.at])

\* resolve(file, overrides): the arguments it calls createFactory with
resolve(h, defaults, file, overrides) ==
    LET e == mergeEnv(h, defaults.env, overrides.env)
        o == mergeOptions(e.heap, defaults.options, overrides.options)
        p == mergeRecord(o.heap, defaults.hostProps, overrides.hostProps)
    IN [heap |-> p.heap, file |-> file, env |-> e.env, options |-> o.at, hostProps |-> p.at]

\* opts.x ?? default, for the options object createFactory is given
OptionsOf(o) ==
    LET get(k, d) == IF k \in DOMAIN o THEN o[k] ELSE d
    IN FactoryOptions(get("exportName", "default"), get("mode", "auto"),
                      get("unwrapReturnedDefault", TRUE), get("hostUrlsOverride", FALSE))

\* the env createFactory reads, by value
EnvAt(h, env) ==
    [react |-> env.react, jsxRuntime |-> env.jsxRuntime,
     imports |-> Deref(h, env.imports), hostUrls |-> DerefEntries(h, env.hostUrls),
     hostProps |-> Deref(h, env.hostProps), depsExtra |-> Deref(h, env.depsExtra)]

\* a resolver's defaults, by value
DefaultsAt(h, defaults) ==
    [env |-> EnvAt(h, defaults.env), options |-> Deref(h, defaults.options),
     hostProps |-> Deref(h, defaults.hostProps)]

React == Obj([k \in {"createElement", "cloneElement"} |-> Opaque(k)])
Preact == Obj([k \in {"createElement", "cloneElement"} |-> Opaque("preact." \o k)])
JsxRuntime == Obj([k \in {"jsx"} |-> Opaque("jsx")])
NoPatch ==
    [react |-> Absent, jsxRuntime |-> Absent, imports |-> Absent, hostUrls |-> Absent,
     depsExtra |-> Absent, hostProps |-> Absent]

\* the configs the host makes the first resolver from: the objects it has made
\* and the config that refers to them
BaseConfigs ==
    { [heap |-> << [k \in {"@host/ui"} |-> HostUi],
                   << [id |-> "@host/icons", url |-> UrlOf("@host/icons")] >>,
                   [k \in {"flags"} |-> Str("on")],
                   [k \in {"theme"} |-> Str("dark")],
                   [k \in {"mode"} |-> "component"],
                   [k \in {"tenant"} |-> Str("acme")] >>,
        config |-> [env |-> [react |-> React, jsxRuntime |-> JsxRuntime, imports |-> 1,
                             hostUrls |-> 2, depsExtra |-> 3, hostProps |-> 4],
                    options |-> 5, hostProps |-> 6]],
      [heap |-> << << [id |-> "@host/ui", url |-> UrlOf("@host/ui")] >>,
                   [k \in {"mode"} |-> "component"] >>,
        config |-> [env |-> [react |-> React, jsxRuntime |-> JsxRuntime, imports |-> 0,
                             hostUrls |-> 1, depsExtra |-> 0, hostProps |-> 0],
                    options |-> 2, hostProps |-> 0]] }

\* the overrides the host passes to with() and resolve()
Overrides ==
    { [env |-> Absent, options |-> Absent, hostProps |-> Absent],
      [env |-> Given([NoPatch EXCEPT
                         !.imports = Given([k \in {"@host/ui", "@inertiajs/core"} |->
                                               Obj([j \in {"from"} |-> Str("override")])]),
                         !.hostUrls = Given(<< [id |-> "@host/charts", url |-> UrlOf("@host/charts")],
                                               [id |-> "@host/icons", url |-> UrlOf("icons-dev")] >>)]),
       options |-> Absent, hostProps |-> Absent],
      [env |-> Given([NoPatch EXCEPT !.react = Given(Preact),
                                     !.hostProps = Given([k \in {"theme"} |-> Str("light")]),
                                     !.depsExtra = Given([k \in {"flags"} |-> Str("off")])]),
       options |-> Given([k \in {"hostUrlsOverride"} |-> TRUE]),
       hostProps |-> Given([k \in {"tenant"} |-> Str("beta")])] }

ResolverFiles == {"./widget.js"}

InitResolver ==
    /\ IdleTransform
    /\ call = NoCall
    /\ frame = NoFrame
    /\ fetched = <<>>
    /\ invoked = <<>>
    /\ rendered = <<>>
    /\ outcome = Unsettled
    /\ resolveNo = 0
    /\ previous = NoPrevious
    /\ embed = NoEmbed
    /\ flights = <<>>
    /\ shown = NothingShown
    /\ notified = <<>>
    /\ IdlePrep
    /\ \E b \in BaseConfigs :
          LET r == createPluginResolver(b.heap, b.config)
          IN /\ heap = r.heap
             /\ resolvers = << [defaults |-> r.defaults, parent |-> 0,
                                overrides |-> [env |-> Absent, options |-> Absent,
                                               hostProps |-> Absent]] >>

\* the host derives a resolver: resolver.with(overrides)
With ==
    /\ Len(resolvers) <= MaxWiths
    /\ \E r \in 1..Len(resolvers), overrides \in Overrides :
          LET w == withOverrides(heap, resolvers[r].defaults, overrides)
          IN /\ heap' = w.heap
             /\ resolvers' = Append(resolvers, [defaults |-> w.defaults, parent |-> r,
                                                overrides |-> overrides])
    /\ UNCHANGED <<tvars, evars, pvars, call, frame, fetched, invoked, rendered, outcome,
                   resolveNo, previous>>

\* the host calls resolver.resolve(file, overrides), which calls createFactory;
\* the objects resolve() makes for the call are the call's own
Resolve ==
    /\ resolveNo < MaxResolves
    /\ frame.pc \in {"idle", "done"}
    /\ \E r \in 1..Len(resolvers), overrides \in Overrides, file \in ResolverFiles :
          LET c == resolve(heap, resolvers[r].defaults, file, overrides)
          IN /\ call' = [file |-> file, env |-> EnvAt(c.heap, c.env),
                         opts |-> OptionsOf(Deref(c.heap, c.options)),
                         hostPropsOverride |-> Deref(c.heap, c.hostProps),
                         importsAt |-> IF c.env.imports <= Len(heap) THEN c.env.imports ELSE 0]
             /\ heap' = SubSeq(c.heap, 1, Len(heap))
    /\ previous' = IF call = NoCall THEN previous
                   ELSE [file |-> call.file, env |-> call.env, opts |-> call.opts,
                         fetched |-> fetched,
                         loopEnded |-> frame.next > Len(call.env.hostUrls)]
    /\ frame' = [NoFrame EXCEPT !.pc = "import"]
    /\ fetched' = <<>>
    /\ invoked' = <<>>
    /\ rendered' = <<>>
    /\ outcome' = Unsettled
    /\ resolveNo' = resolveNo + 1
    /\ UNCHANGED <<tvars, evars, pvars, resolvers>>

NextResolver ==
    \/ With
    \/ Resolve
    \/ ImportFile
    \/ ImportFileFails
    \/ SkipHostUrl
    \/ FetchHostUrl
    \/ HostUrlResolves
    \/ HostUrlRejects
    \/ TakeAsComponent

\* a resolver, the resolvers derived from it, and calls of resolve() on them
SpecResolver == InitResolver /\ [][NextResolver]_vars

\* ============================================ create-resolver.ts: Embed
\* One Embed bound to the first resolver. React calls the component function
\* in a render pass, and runs the passive effect of a pass whose `file` differs
\* from the last effect's (cleanup of the previous effect first) at a later
\* time: promise continuations can run in between. An unmounted component's
\* effect cleanup is run at a later time as well.
EmbedFiles == {"./a.js", "./b.js"}

\* the overrides prop of the Embed
EmbedOverrides ==
    { Absent,
      Given([env |-> Absent, options |-> Given([k \in {"mode"} |-> "factory"]),
             hostProps |-> Given([k \in {"tenant"} |-> Str("beta")])]) }

\* what a plugin's export can throw or reject with: any value
ThrownValues == {Obj([k \in {"message"} |-> Str("boom")]), Undefined}

\* new Error(message)
ErrorObject(err) == Obj([k \in {"message"} |-> Str(err.kind)])

\* { ...(latest.current.overrides ?? {}), hostProps: mergeRecord(overrides?.hostProps ?? {}, hostProps ?? {}) }
mergedOverrides(latest) ==
    LET o == IF latest.overrides.given THEN latest.overrides.v
             ELSE [env |-> Absent, options |-> Absent, hostProps |-> Absent]
    IN [o EXCEPT !.hostProps = Given(Spread(OrEmpty(o.hostProps), OrEmpty(latest.hostProps)))]

\* the effect's async function up to its await: resolve(file, mergedOverrides)
StartResolution(file, latest) ==
    LET c == resolve(heap, resolvers[1].defaults, file, mergedOverrides(latest))
    IN [file |-> file, env |-> EnvAt(c.heap, c.env),
        opts |-> OptionsOf(Deref(c.heap, c.options)),
        hostPropsOverride |-> Deref(c.heap, c.hostProps),
        cancelled |-> FALSE, status |-> "pending", applied |-> FALSE,
        settled |-> [status |-> "pending"]]

\* the dependency map createFactory ends its hostUrls loop with, every fetch fulfilled
RECURSIVE LoopImports(_, _, _, _)
LoopImports(imports, entries, k, override) ==
    IF k > Len(entries) THEN imports
    ELSE LoopImports(IF entries[k].id \in DOMAIN imports /\ ~override THEN imports
                     ELSE Spread(imports, [id \in {entries[k].id} |-> HostModule(entries[k].url)]),
                     entries, k + 1, override)

\* the ways the createFactory call of a resolution settles
EmbedOutcomes(flight) ==
    LET mod == CHOOSE m \in ModulesAt(flight.file) : TRUE
        f == [mod |-> mod,
              imports |-> LoopImports(BaseImports(flight.env), flight.env.hostUrls, 1,
                                      flight.opts.hostUrlsOverride)]
        picked == pickExport(mod, flight.opts.exportName)
        failed(reason) == [status |-> "rejected", reason |-> reason]
        prepared(component, wasFactory) ==
            [status |-> "fulfilled", react |-> flight.env.react,
             prepared |-> RenderFactory(f, flight, component, wasFactory)]
    IN {failed(ErrorObject(ExportNotFoundError(flight.opts.exportName, flight.file, Undefined)))}
       \cup {failed(ErrorObject(HostUrlError(flight.env.hostUrls[k].id, flight.env.hostUrls[k].url,
                                             "Failed to fetch"))) :
                k \in 1..Len(flight.env.hostUrls)}
       \cup IF flight.opts.mode = "factory"
            THEN {failed(v) : v \in ThrownValues}
                 \cup {failed(ErrorObject(NotAComponentError(flight.file, Null)))}
                 \cup {prepared(Widget, TRUE)}
            ELSE {prepared(picked, FALSE)}

\* the host mounts <Embed .../>: nothing has been rendered yet
InitEmbed ==
    /\ IdleTransform
    /\ call = NoCall
    /\ frame = NoFrame
    /\ fetched = <<>>
    /\ invoked = <<>>
    /\ rendered = <<>>
    /\ outcome = Unsettled
    /\ resolveNo = 0
    /\ previous = NoPrevious
    /\ \E b \in BaseConfigs :
          LET r == createPluginResolver(b.heap, b.config)
          IN /\ heap = r.heap
             /\ resolvers = << [defaults |-> r.defaults, parent |-> 0,
                                overrides |-> [env |-> Absent, options |-> Absent,
                                               hostProps |-> Absent]] >>
    /\ \E overrides \in EmbedOverrides, onErrorRender \in BOOLEAN :
          embed = [status |-> "new",
                   p |-> [file |-> "", props |-> Undefined,
                          hostProps |-> Given([k \in {"theme"} |-> Str("embed")]),
                          overrides |-> overrides, fallback |-> Null,
                          onErrorRender |-> onErrorRender, onResolved |-> TRUE],
                   renderFn |-> NoRender, react |-> Undefined, error |-> Null,
                   latest |-> [props |-> Undefined, hostProps |-> Absent, overrides |-> Absent,
                               onResolved |-> FALSE],
                   effectFile |-> ""]
    /\ flights = <<>>
    /\ shown = NothingShown
    /\ notified = <<>>
    /\ IdlePrep

\* the last render pass had another `file` than the last effect: React has an
\* effect (and the previous effect's cleanup) to run
EffectDue == embed.status = "mounted" /\ embed.p.file # embed.effectFile

\* what the component function returns
EmbedOutput(state, p) ==
    IF Truthy(state.error)
    THEN [kind |-> "error", by |-> IF p.onErrorRender THEN "onErrorRender" ELSE "pre",
          error |-> state.error]
    ELSE IF state.renderFn = NoRender
    THEN [kind |-> "fallback", value |-> p.fallback]
    ELSE [kind |-> "element", element |-> render(state.renderFn, state.react, p.props)]

\* a render pass: React calls Embed(p), for a new `file` or new props from the
\* parent or for a state change; pending effects are run before a pass
EmbedRender ==
    /\ embed.status \in {"new", "mounted"}
    /\ ~EffectDue
    /\ \E file \in EmbedFiles, props \in RenderArgs :
          LET p == [embed.p EXCEPT !.file = file, !.props = props]
              out == EmbedOutput(embed, p)
          IN /\ file # embed.effectFile => Len(flights) < MaxFlights
             /\ embed' = [embed EXCEPT !.status = "mounted", !.p = p,
                                       !.latest = [props |-> p.props, hostProps |-> p.hostProps,
                                                   overrides |-> p.overrides,
                                                   onResolved |-> p.onResolved]]
             /\ shown' = [kind |-> out.kind, out |-> out, file |-> file, props |-> props,
                          resolvedFor |-> embed.renderFn.file,
                          flight |-> Len(flights),
                          at |-> IF flights = <<>> THEN "unstarted"
                                 ELSE flights[Len(flights)].status]
    /\ UNCHANGED <<tvars, pvars, call, frame, fetched, invoked, rendered, outcome, rvars, flights,
                   notified>>

\* the effect's cleanup: cancelled = true
Cleanup(fs) ==
    IF fs = <<>> THEN fs ELSE [fs EXCEPT ![Len(fs)].cancelled = TRUE]

\* React runs the effect of the last pass: the previous effect's cleanup, then
\* setRenderFn(null), setError(null) and the start of a resolution
FlushEffect ==
    /\ EffectDue
    /\ Len(flights) < MaxFlights
    /\ flights' = Append(Cleanup(flights), StartResolution(embed.p.file, embed.latest))
    /\ embed' = [embed EXCEPT !.renderFn = NoRender, !.error = Null,
                              !.effectFile = embed.p.file]
    /\ UNCHANGED <<tvars, pvars, call, frame, fetched, invoked, rendered, outcome, rvars, shown,
                   notified>>

\* the host removes the Embed
Unmount ==
    /\ embed.status = "mounted"
    /\ ~EffectDue
    /\ embed' = [embed EXCEPT !.status = "unmounted"]
    /\ UNCHANGED <<tvars, pvars, call, frame, fetched, invoked, rendered, outcome, rvars, flights,
                   shown, notified>>

\* React runs the cleanup of the removed Embed's effect
UnmountCleanup ==
    /\ embed.status = "unmounted"
    /\ flights # <<>>
    /\ ~flights[Len(flights)].cancelled
    /\ flights' = Cleanup(flights)
    /\ UNCHANGED <<tvars, pvars, call, frame, fetched, invoked, rendered, outcome, rvars, embed,
                   shown, notified>>

\* mutant: the continuation never tests its flag
IsCancelled_Never(flight) == FALSE

\* if (cancelled) return;
IsCancelled(flight) == flight.cancelled

\* the info object onResolved is called with
ResolvedInfo(prepared) ==
    [file |-> prepared.file, exportName |-> prepared.exportName,
     wasFactory |-> prepared.wasFactory, component |-> prepared.component,
     module |-> prepared.module]

\* the await of a resolution ends: the rest of the effect's async function;
\* a state setter of an unmounted component does nothing
Settle ==
    \E i \in 1..Len(flights) :
       /\ flights[i].status = "pending"
       /\ \E o \in EmbedOutcomes(flights[i]) :
             /\ flights' = [flights EXCEPT ![i].status = o.status, ![i].settled = o,
                                           ![i].applied = ~IsCancelled(flights[i])]
             /\ IF IsCancelled(flights[i])
                THEN UNCHANGED <<embed, notified>>
                ELSE IF o.status = "fulfilled"
                THEN /\ embed' = IF embed.status = "unmounted" THEN embed
                                 ELSE [embed EXCEPT !.renderFn = o.prepared, !.react = o.react]
                     /\ notified' = IF embed.latest.onResolved
                                    THEN Append(notified, [flight |-> i,
                                                           info |-> ResolvedInfo(o.prepared)])
                                    ELSE notified
                ELSE /\ embed' = IF embed.status = "unmounted" THEN embed
                                 ELSE [embed EXCEPT !.error = o.reason]
                     /\ notified' = notified
       /\ UNCHANGED <<tvars, pvars, call, frame, fetched, invoked, rendered, outcome, rvars, shown>>

NextEmbed ==
    \/ EmbedRender
    \/ FlushEffect
    \/ Unmount
    \/ UnmountCleanup
    \/ Settle

\* one Embed through its render passes, effects and resolutions
SpecEmbed == InitEmbed /\ [][NextEmbed]_vars

\* ===================================================================== claims
Last(seq) == seq[Len(seq)]

\* the file was rewritten: babel returned code and the plugin was enabled
Rewritten == phase \in {"written", "called"} /\ plugin.enabled

\* the statements of the emitted factory's body
WrapperBody == FactoryOf(program).body.body

IsImport(stmt) == stmt.type = "ImportDeclaration"
IsExportNamed(stmt) == stmt.type = "ExportNamedDeclaration"
IsPlain(stmt) ==
    stmt.type \notin {"ImportDeclaration", "ExportNamedDeclaration", "ExportDefaultDeclaration"}
IsKeptImport(stmt) == IsImport(stmt) /\ ~shouldInject(stmt.source, opts)
IsInjectedImport(stmt) == IsImport(stmt) /\ shouldInject(stmt.source, opts)

\* export { X as default }
IsDefaultSpecifier(spec) == spec.type = "ExportSpecifier" /\ spec.exported = "default"
\* export default ..., or a statement with an `X as default` specifier
IsExplicitDefault(stmt) ==
    \/ stmt.type = "ExportDefaultDeclaration"
    \/ /\ stmt.type = "ExportNamedDeclaration"
       /\ \E k \in 1..Len(stmt.specifiers) : IsDefaultSpecifier(stmt.specifiers[k])
HasExplicitDefault(file) == \E i \in 1..Len(file) : IsExplicitDefault(file[i])

\* the name the explicit default export of a file is bound to
ExplicitDefaultName(file) ==
    LET st == file[CHOOSE i \in 1..Len(file) : IsExplicitDefault(file[i])] IN
    IF st.type = "ExportNamedDeclaration"
    THEN st.specifiers[CHOOSE k \in 1..Len(st.specifiers) :
                          IsDefaultSpecifier(st.specifiers[k])].local
    ELSE IF st.declaration.type = "Identifier" THEN st.declaration.name
    ELSE IF st.declaration.type = "FunctionDeclaration" /\ st.declaration.id.type = "Identifier"
    THEN st.declaration.id.name
    ELSE GeneratedUid

\* C1: a file whose default export comes from an explicit construct gets a
\* factory that returns the bound name itself, never name.default, whatever
\* named exports stand before or after it; called with {} the factory returns
\* the value bound to that name.
C1_ExplicitDefaultReturnedDirectly ==
    (Rewritten /\ HasExplicitDefault(input)) =>
        LET name == ExplicitDefaultName(input) IN
        /\ Last(WrapperBody) = ReturnStatement(Identifier(name))
        /\ (phase = "called" /\ depsArg = Obj(NoProps) /\ name \in DOMAIN completion.env)
              => /\ completion.status = "returned"
                 /\ completion.value = completion.env[name]

\* the names a named export statement exports, `default` left out
NamedExportsOf(stmt) ==
    IF ~IsExportNamed(stmt) THEN <<>>
    ELSE SelectSeq(ExportedBy(stmt), LAMBDA n : n # "default")

\* the names the trailing named exports of the output export, in order
TrailingExportNames ==
    Flatten([i \in 1..Len(program) |->
                IF IsExportNamed(program[i]) THEN ExportedBy(program[i]) ELSE <<>>])

BindsDefault(stmt) ==
    \/ stmt.type = "ExportDefaultDeclaration"
    \/ /\ stmt.type = "ExportNamedDeclaration"
       /\ \E k \in 1..Len(stmt.specifiers) :
              /\ stmt.specifiers[k].exported = "default"
              /\ LocalNameOf(stmt.specifiers[k]) # NoName

\* statement i of the file is the one the pass takes as the fallback default:
\* one specifier, not exported as `default`, and no default bound before it
IsFallbackAt(file, i) ==
    /\ IsExportNamed(file[i])
    /\ Len(file[i].specifiers) = 1
    /\ file[i].specifiers[1].exported # "default"
    /\ LocalNameOf(file[i].specifiers[1]) # NoName
    /\ \A j \in 1..(i - 1) :
           /\ ~BindsDefault(file[j])
           /\ ~(IsExportNamed(file[j]) /\ Len(file[j].specifiers) = 1
                /\ file[j].specifiers[1].exported # "default"
                /\ LocalNameOf(file[j].specifiers[1]) # NoName)

C3_ResultIsFileLocal ==
    phase \in {"written", "failed"} =>
        LET alone == TransformWith(FreshPlugin, input, opts) IN
        /\ alone.threw = (phase = "failed")
        /\ ~alone.threw => program = alone.body

\* no statement of the file exports the name `default`
NoDefaultExport(file) == \A i \in 1..Len(file) : "default" \notin Range(ExportedBy(file[i]))

\* C4: under "skip" a file with no default export is left untouched: nothing
\* is captured or removed at any point of the pass, nothing is thrown, and the
\* program babel prints is the input's statement sequence.
C4_SkipLeavesFileUntouched ==
    (opts.onMissingDefault = "skip" /\ NoDefaultExport(input) /\ phase # "enter") =>
        /\ program = input
        /\ plugin = [FreshPlugin EXCEPT !.enabled = FALSE]
        /\ phase # "failed"

C4_Witness ==
    /\ phase = "written" /\ opts.onMissingDefault = "skip" /\ NoDefaultExport(input)
    /\ \E i \in 1..Len(input) : IsInjectedImport(input[i])
    /\ \E i \in 1..Len(input) : IsExportNamed(input[i])
    /\ program = input

\* the names a statement list binds with `const` or `function` at its top
BindingNames(stmts) == Flatten(SeqMap(DeclaredBy, stmts))

IsModuleBinding(stmt) ==
    /\ stmt.type = "VariableDeclaration"
    /\ stmt.declarations[1].init.type = "MemberExpression"
    /\ stmt.declarations[1].init.object = importsIdent

\* the import id a module binding reads from the import map
ModuleBindingId(stmt) == stmt.declarations[1].init.property.text

\* the internal module name an injected binding statement reads
ModuleReadBy(stmt) ==
    LET init == stmt.declarations[1].init IN
    IF init.type = "CallExpression" THEN init.arguments[1].name
    ELSE IF init.type = "LogicalExpression" THEN init.left.name
    ELSE IF init.type = "Identifier" THEN init.name
    ELSE NoName

RECURSIVE Dedupe(_)
\* the first occurrence of every element, in order
Dedupe(seq) ==
    IF seq = <<>> THEN <<>>
    ELSE LET rest == Dedupe(SubSeq(seq, 1, Len(seq) - 1))
         IN IF Last(seq) \in Range(rest) THEN rest ELSE Append(rest, Last(seq))

\* the injected source ids of a file that have a specifier, in first-capture order
FirstCaptureOrder(file) ==
    Dedupe(Flatten([i \in 1..Len(file) |->
        IF IsInjectedImport(file[i]) /\ Len(file[i].specifiers) > 0
        THEN <<file[i].source>> ELSE <<>>]))

\* how many statements of a file stay in the factory body
RemainingCount(file) ==
    Cardinality({i \in 1..Len(file) :
        \/ IsPlain(file[i])
        \/ file[i].type = "ExportDefaultDeclaration" /\ file[i].declaration.type # "Identifier"})

\* C5: the top level of a rewritten module is the kept imports, one
\* default-exported factory taking the configured parameter, the kept named
\* exports; inside the factory: import-map resolution, default-unwrap helper,
\* the injected bindings grouped per source id in first-capture order, the
\* remaining original statements in original order, one final return.
C5_ModuleLayout ==
    (phase = "written" /\ plugin.enabled) =>
        LET keptI == SelectSeq(input, IsKeptImport)
            n == Len(keptI)
            wb == WrapperBody
            nO == RemainingCount(input)
            J == SubSeq(wb, 3, Len(wb) - 1 - nO)
            O == SubSeq(wb, Len(wb) - nO, Len(wb) - 1)
            ids == FirstCaptureOrder(input)
            mods == SelectSeq(J, IsModuleBinding)
        IN /\ Len(program) >= n + 1
           /\ SubSeq(program, 1, n) = keptI
           /\ IsFactory(program[n + 1])
           /\ program[n + 1].declaration.params = <<Identifier(opts.depsParam)>>
           /\ \A i \in (n + 2)..Len(program) : IsExportNamed(program[i])
           /\ IsSubsequence(SeqMap(ExportedBy, SubSeq(program, n + 2, Len(program))),
                            SeqMap(NamedExportsOf, input))
           /\ Len(wb) >= 3 + nO
           /\ BindingNames(<<wb[1]>>) = <<importsIdent.name>>
           /\ BindingNames(<<wb[2]>>) = <<defaultHelperIdent.name>>
           /\ SeqMap(ModuleBindingId, mods) = ids
           /\ \A j \in 1..Len(J) :
                  \/ IsModuleBinding(J[j])
                  \/ \E k \in 1..(j - 1) :
                         /\ IsModuleBinding(J[k])
                         /\ BindingNames(<<J[k]>>) = <<ModuleReadBy(J[j])>>
                         /\ \A l \in (k + 1)..(j - 1) : ~IsModuleBinding(J[l])
           /\ IsSubsequence(SelectSeq(input, IsPlain), O)
           /\ \A j \in 1..Len(O) : O[j].type \in {"VariableDeclaration", "FunctionDeclaration"}
                                   /\ ~IsModuleBinding(O[j])
           /\ Last(wb).type = "ReturnStatement"
           /\ \A j \in 1..(Len(wb) - 1) : wb[j].type # "ReturnStatement"

C5_Witness ==
    /\ phase = "written" /\ plugin.enabled
    /\ input = <<S_impHostUi, S_impReact, S_expDefFn>>
    /\ SeqMap(ModuleBindingId, SelectSeq(WrapperBody, IsModuleBinding)) = <<"@host/ui", "react">>

\* the captures recorded under a source id, <<>> when there are none
CapturesOf(id) ==
    IF MapHas(plugin.injectedImportsById, id) THEN MapGet(plugin.injectedImportsById, id)
    ELSE <<>>

\* the specifiers of a file's import statements of one source id, in order
SpecifiersOf(file, id) ==
    Flatten([i \in 1..Len(file) |->
        IF IsImport(file[i]) /\ file[i].source = id THEN file[i].specifiers ELSE <<>>])

SourceIds(file) == {file[i].source : i \in {j \in 1..Len(file) : IsImport(file[j])}}

CaptureKindOf(spec) ==
    IF spec.type = "ImportDefaultSpecifier" THEN "default"
    ELSE IF spec.type = "ImportNamespaceSpecifier" THEN "namespace" ELSE "named"

\* C7: each import statement of a rewritten file ends in exactly one place. The
\* non-injected ones are, unchanged and in order, the top-level imports of the
\* output; no top-level import of an injected id remains; under an injected id
\* there is one capture per specifier of its statements, merged in order; an
\* injected id none of whose statements has a specifier leaves no capture and
\* no module binding.
C7_ImportsKeptOrCaptured ==
    (phase = "written" /\ plugin.enabled) =>
        /\ SelectSeq(program, IsImport) = SelectSeq(input, IsKeptImport)
        /\ \A i \in 1..Len(WrapperBody) : ~IsImport(WrapperBody[i])
        /\ \A id \in SourceIds(input) :
               LET specs == SpecifiersOf(input, id)
                   caps == CapturesOf(id)
               IN IF shouldInject(id, opts)
                  THEN /\ Len(caps) = Len(specs)
                       /\ \A k \in 1..Len(specs) :
                              /\ caps[k].local = specs[k].local
                              /\ caps[k].kind = CaptureKindOf(specs[k])
                       /\ (specs = <<>>) =>
                              /\ ~MapHas(plugin.injectedImportsById, id)
                              /\ \A i \in 1..Len(WrapperBody) :
                                     modIdent(id).name \notin Range(BindingNames(<<WrapperBody[i]>>))
                  ELSE caps = <<>>
        /\ \A i \in 1..Len(plugin.injectedImportsById) :
               plugin.injectedImportsById[i].importId \in SourceIds(input)

C7_Witness ==
    /\ phase = "written" /\ plugin.enabled
    /\ input = <<S_impReact, S_impHostSide, S_impReactNs>>
    /\ Len(CapturesOf("react")) = 3
    /\ Len(program) = 1

\* C9: an enabled rewrite that reaches the end with no default binding fails
\* under "throw" with DEFAULT_EXPORT_ERROR attributed to the file and no module
\* is written; under "return-null" the module is rewritten in full and the
\* factory's final statement returns null.
C9_MissingDefaultPolicy ==
    /\ (phase \in {"written", "failed"} /\ plugin.enabled
        /\ plugin.defaultExportLocalName = NoName) =>
           /\ opts.onMissingDefault = "throw" =>
                  /\ phase = "failed"
                  /\ thrown = [message |-> DEFAULT_EXPORT_ERROR, file |-> fileNo]
                  /\ \A i \in 1..Len(program) : ~IsFactory(program[i])
           /\ opts.onMissingDefault = "return-null" =>
                  /\ phase = "written"
                  /\ thrown = NoError
                  /\ program = SelectSeq(input, IsKeptImport)
                               \o <<ExportDefaultDeclaration(FactoryOf(program))>>
                               \o plugin.keptNamedExports
                  /\ Last(WrapperBody) = ReturnStatement(NullLiteral)
                  /\ SubSeq(WrapperBody, Len(WrapperBody) - RemainingCount(input),
                            Len(WrapperBody) - 1) = SelectSeq(input, IsPlain)
    /\ (phase = "failed") =>
           (plugin.defaultExportLocalName = NoName /\ opts.onMissingDefault = "throw")

C9_Witness ==
    /\ phase = "written" /\ plugin.enabled
    /\ plugin.defaultExportLocalName = NoName
    /\ opts.onMissingDefault = "return-null"
    /\ input = <<S_impReact, S_declHelper, S_expConst>>
    /\ Last(WrapperBody) = ReturnStatement(NullLiteral)

\* the import map the called factory resolved
ResolvedMap ==
    IF importsIdent.name \in DOMAIN completion.env THEN completion.env[importsIdent.name]
    ELSE Undefined

\* the host has called the factory
Called == phase = "called"

\* the value the claim gives the local of an import specifier, with M the
\* dependency-map entry of its source id
ExpectedBinding(spec, M) ==
    IF spec.type = "ImportDefaultSpecifier"
    THEN (IF M.t = "object" /\ "default" \in DOMAIN M.props THEN M.props["default"] ELSE M)
    ELSE IF spec.type = "ImportNamespaceSpecifier" THEN M
    ELSE IF M.t \in {"null", "undefined"} THEN Undefined
    ELSE GetProp(M, spec.imported)

\* C6: in the called factory, every specifier of every injected import is
\* bound as the claim says: default locals to M.default when M is a non-null
\* object with a `default` property and to M itself otherwise, namespace
\* locals to M, named locals to M[imported] (read from {} when M is null or
\* undefined), M being the resolved map's entry for the source id.
C6_InjectedBindings ==
    Called =>
        \A i \in 1..Len(input) :
            IsInjectedImport(input[i]) =>
                \A k \in 1..Len(input[i].specifiers) :
                    LET spec == input[i].specifiers[k]
                        M == GetProp(ResolvedMap, input[i].source)
                    IN /\ spec.local \in DOMAIN completion.env
                       /\ completion.env[spec.local] = ExpectedBinding(spec, M)

C6_Witness ==
    /\ Called
    /\ input = <<S_impReact, S_impReactNs>>
    /\ depsArg = Keyed("imports", MapOf(NsModule, NsModule))
    /\ completion.env["React"] = D_default
    /\ completion.env["ReactNS"] = NsModule
    /\ completion.env["useMemo"] = Opaque("useMemo")

Loaded == frame.pc \notin {"idle", "import"} /\ frame.mod # Undefined
HasExport(mod, name) == isObject(mod) /\ HasKey(mod, name)
RejectedNotFound ==
    /\ outcome = Rejected(ExportNotFoundError(call.opts.exportName, call.file, frame.mod))
    /\ fetched = <<>>
    /\ invoked = <<>>

\* C10 as stated: for every configured export name, "default" included,
\* createFactory rejects with an error naming the export, the file and the
\* module's keys whenever the loaded module has no export of that name, having
\* fetched no host url and invoked nothing, and returning no render function.
C10_MissingExportRejects ==
    (Loaded /\ ~HasExport(frame.mod, call.opts.exportName)) => RejectedNotFound

\* C10 amended: for every configured export name other than "default",
\* createFactory rejects with an error naming the export, the file and the
\* module's keys whenever the loaded module has no export of that name, having
\* fetched no host url and invoked nothing, and returning no render function;
\* for "default", a module with no export of that name is itself the picked
\* export and the call does not reject for a missing export.
C10_MissingNamedExportRejects ==
    (Loaded /\ ~HasExport(frame.mod, call.opts.exportName)) =>
        IF call.opts.exportName # "default"
        THEN RejectedNotFound
        ELSE frame.picked = frame.mod /\ outcome.error.kind # "ExportNotFound"

\* a module without the configured named export was loaded for a call that had
\* host urls to fetch, and the call is rejected
C10_Witness ==
    /\ Loaded
    /\ call.opts.exportName = "Widget"
    /\ ~HasExport(frame.mod, "Widget")
    /\ HasExport(frame.mod, "default")
    /\ call.env.hostUrls # <<>>
    /\ outcome.status = "rejected"

\* ---------------------------------------------------------------------- C11
\* createFactory has built its dependency map
MapBuilt == Loaded /\ ~IsNullish(frame.picked)
\* the entries of env.hostUrls the loop has dealt with
Processed == SubSeq(call.env.hostUrls, 1, frame.next - 1)
ProcessedIds == {Processed[k].id : k \in 1..Len(Processed)}
\* the map before any host url: react and react/jsx-runtime overlaid by env.imports
StartingEntry(id) ==
    IF id \in DOMAIN call.env.imports THEN call.env.imports[id]
    ELSE IF id = "react" THEN call.env.react
    ELSE call.env.jsxRuntime
StartingIds == {"react", "react/jsx-runtime"} \cup DOMAIN call.env.imports

\* C11: the dependency map starts from react and react/jsx-runtime overlaid by
\* env.imports; for each id of env.hostUrls dealt with, the entry is the module
\* fetched from its url exactly when the id was absent from that map or
\* hostUrlsOverride is set, and otherwise the existing entry is kept and its
\* url is not fetched.
C11_DependencyMap ==
    MapBuilt =>
        /\ DOMAIN frame.imports = StartingIds \cup ProcessedIds
        /\ \A id \in StartingIds \ ProcessedIds : frame.imports[id] = StartingEntry(id)
        /\ \A k \in 1..Len(Processed) :
              LET e == Processed[k] IN
              IF e.id \notin StartingIds \/ call.opts.hostUrlsOverride
              THEN frame.imports[e.id] = HostModule(e.url) /\ e.url \in Range(fetched)
              ELSE frame.imports[e.id] = StartingEntry(e.id) /\ e.url \notin Range(fetched)

\* a call without override that kept react and fetched another id has returned
C11_Witness ==
    /\ outcome.status = "fulfilled"
    /\ ~call.opts.hostUrlsOverride
    /\ "react" \in DOMAIN call.env.imports
    /\ \E k \in 1..Len(call.env.hostUrls) : call.env.hostUrls[k].id = "react"
    /\ fetched # <<>>

\* ---------------------------------------------------------------------- C12
\* entry k of env.hostUrls is one the loop fetches
Fetches(k) ==
    call.env.hostUrls[k].id \notin StartingIds \/ call.opts.hostUrlsOverride
HostUrlFailed == outcome.error.kind = "HostUrlImportFailed"
\* the entries the loop has begun with: those dealt with, and the one in flight
\* or failed
Begun == IF frame.pc = "fetching" \/ HostUrlFailed THEN frame.next ELSE frame.next - 1

C12_Order ==
    MapBuilt =>
        /\ fetched = SeqMap(LAMBDA k : call.env.hostUrls[k].url,
                            SelectSeq([k \in 1..Begun |-> k], Fetches))
        /\ invoked # <<>> => /\ frame.next > Len(call.env.hostUrls)
                             /\ ~HostUrlFailed
        /\ HostUrlFailed =>
              /\ outcome.status = "rejected"
              /\ outcome.error.id = HostUrlEntry.id
              /\ outcome.error.url = HostUrlEntry.url
              /\ Last(fetched) = HostUrlEntry.url
              /\ invoked = <<>>
C12_Step ==
    /\ fetched' # fetched => frame.pc = "hostUrls" /\ Len(fetched') = Len(fetched) + 1
    /\ invoked' # invoked => frame.pc # "fetching"
    /\ outcome.status = "rejected" => fetched' = fetched /\ invoked' = invoked

\* C12: the host urls are fetched one at a time in the order of env.hostUrls,
\* none while another is in flight; the picked export is invoked only after
\* the loop has ended with every fetch succeeded; a failed fetch rejects the
\* call with an error naming the id and the url, after which nothing more is
\* fetched and the export is never invoked.
C12_FetchesInOrderBeforeInvoke == [](C12_Order) /\ [][C12_Step]_vars

\* the second of two fetches failed
C12_Witness ==
    /\ HostUrlFailed
    /\ Len(fetched) = 2
    /\ isCallable(frame.picked) /\ call.opts.mode # "component"

\* ---------------------------------------------------------------------- C13
\* C13: a picked export that is not callable, or any picked export under mode
\* "component", is never invoked: the component is the picked export itself
\* and wasFactory is false.
C13_ComponentExportNeverInvoked ==
    (MapBuilt /\ (~isCallable(frame.picked) \/ call.opts.mode = "component")) =>
        /\ invoked = <<>>
        /\ frame.pc # "awaiting"
        /\ outcome.status = "rejected" => HostUrlFailed
        /\ outcome.status = "fulfilled" =>
              /\ outcome.render.component = frame.picked
              /\ outcome.render.wasFactory = FALSE

\* a tagged factory was resolved under mode "component"
C13_Witness ==
    /\ outcome.status = "fulfilled"
    /\ call.opts.mode = "component"
    /\ looksTaggedFactory(frame.picked, call.opts.tagKey)

\* ---------------------------------------------------------------------- C14
\* the result of the call after the unwrap the call applies to it
AfterUnwrap(v) ==
    IF call.opts.unwrapReturnedDefault /\ isObject(v) /\ HasKey(v, "default")
    THEN GetProp(v, "default") ELSE v
\* the call threw, its promise rejected, or it gave no component
CallGaveNoComponent ==
    \/ frame.result.kind = "threw"
    \/ /\ frame.result.kind = "gave"
       /\ IsNullish(AfterUnwrap(frame.result.v)) \/ isReactElement(AfterUnwrap(frame.result.v))

\* C14: when the call of the picked export throws, its promise rejects, or its
\* result after default-unwrap is null, undefined or an element, mode "auto"
\* gives a render function whose component is the picked export with
\* wasFactory false, and mode "factory" rejects: with what was thrown, or with
\* the 'did not return a component export' error.
C14_FailedCallRollsBackOrRejects ==
    CallGaveNoComponent =>
        /\ invoked # <<>>
        /\ call.opts.mode = "auto" =>
              /\ outcome.status = "fulfilled"
              /\ outcome.render.component = frame.picked
              /\ outcome.render.wasFactory = FALSE
        /\ call.opts.mode = "factory" =>
              outcome = Rejected(IF frame.result.kind = "threw" THEN ThrownByExport
                                 ELSE NotAComponentError(call.file, AfterUnwrap(frame.result.v)))

\* under "auto" the call gave an object whose default is null, and the picked
\* export is the component
C14_Witness ==
    /\ call.opts.mode = "auto"
    /\ frame.result = Gave(Obj([k \in {"default"} |-> Null]))
    /\ call.opts.unwrapReturnedDefault
    /\ outcome.status = "fulfilled"

\* ---------------------------------------------------------------------- C15
\* a overridden key by key by b
OverriddenBy(a, b) == [k \in DOMAIN a \cup DOMAIN b |-> IF k \in DOMAIN b THEN b[k] ELSE a[k]]
EffectiveHostProps == OverriddenBy(call.env.hostProps, call.hostPropsOverride)

\* C15: host props always win: the render function's host props are
\* env.hostProps overridden key by key by hostPropsOverride, they are the ones
\* exposed as render.hostProps from the moment createFactory returns, and
\* every render(p) gives an element whose props are p overridden key by key by
\* them.
C15_HostPropsWin ==
    outcome.status = "fulfilled" =>
        /\ outcome.render.hostProps = EffectiveHostProps
        /\ \A i \in 1..Len(rendered) :
              LET p == IF IsNullish(rendered[i].renderProps) THEN NoProps
                       ELSE rendered[i].renderProps.props
              IN ElementProps(rendered[i].element) = OverriddenBy(p, EffectiveHostProps)

\* render was called with props of its own whose `theme` both env.hostProps and
\* hostPropsOverride also give
C15_Witness ==
    /\ Len(rendered) >= 1
    /\ rendered[1].renderProps # Undefined
    /\ call.env.hostProps # NoProps /\ call.hostPropsOverride # NoProps
    /\ ElementProps(rendered[1].element)["theme"] = Str("light")
    /\ ElementProps(rendered[1].element)["title"] = Str("Hello")

\* ---------------------------------------------------------------------- C16
Parent(r) == resolvers[r].parent
\* the keys a derived resolver's overrides give for each of its maps
OverrideKeys(ov) ==
    LET e == IF ov.env.given THEN ov.env.v ELSE NoPatch
    IN [imports |-> DOMAIN OrEmpty(e.imports),
        hostUrls |-> {x.id : x \in Range(OrNoEntries(e.hostUrls))},
        depsExtra |-> DOMAIN OrEmpty(e.depsExtra),
        options |-> DOMAIN OrEmpty(ov.options),
        hostProps |-> DOMAIN OrEmpty(ov.hostProps)]
\* the keys of each map of a resolver's defaults
DefaultKeys(r) ==
    LET d == DefaultsAt(heap, resolvers[r].defaults)
    IN [imports |-> DOMAIN d.env.imports,
        hostUrls |-> {x.id : x \in Range(d.env.hostUrls)},
        depsExtra |-> DOMAIN d.env.depsExtra,
        options |-> DOMAIN d.options,
        hostProps |-> DOMAIN d.hostProps]

\* every step leaves every resolver made so far, and what its defaults hold, as
\* it was
C16_Step ==
    \A r \in 1..Len(resolvers) :
        /\ Len(resolvers') >= r
        /\ resolvers'[r] = resolvers[r]
        /\ DefaultsAt(heap', resolvers[r].defaults) = DefaultsAt(heap, resolvers[r].defaults)
\* a derived resolver holds nothing but what its parent holds and what its own
\* overrides gave, and two resolvers derived from one parent with the same
\* overrides hold the same
C16_Siblings ==
    \A a \in 1..Len(resolvers) :
        Parent(a) # 0 =>
            /\ \A m \in {"imports", "hostUrls", "depsExtra", "options", "hostProps"} :
                  DefaultKeys(a)[m] =
                      DefaultKeys(Parent(a))[m] \cup OverrideKeys(resolvers[a].overrides)[m]
            /\ \A b \in 1..Len(resolvers) :
                  (Parent(b) = Parent(a) /\ resolvers[b].overrides = resolvers[a].overrides)
                      => DefaultsAt(heap, resolvers[b].defaults)
                           = DefaultsAt(heap, resolvers[a].defaults)

\* C16: with() and resolve() never mutate the resolver they are called on: the
\* defaults of every earlier resolver stay as they were through every with()
\* and resolve(), and resolvers derived from the same base never see each
\* other's overrides.
C16_ResolversNeverMutated == [](C16_Siblings) /\ [][C16_Step]_vars

\* two resolvers derived from the first with different overrides, and a
\* resolve() that fetched a host url
C16_Witness ==
    /\ \E a, b \in 1..Len(resolvers) :
          /\ Parent(a) = 1 /\ Parent(b) = 1
          /\ resolvers[a].overrides.env.given /\ resolvers[b].overrides.env.given
          /\ resolvers[a].overrides # resolvers[b].overrides
    /\ fetched # <<>>
    /\ outcome.status = "fulfilled"

\* ---------------------------------------------------------------------- C17
\* hostUrls as the mapping it is
UrlsOf(entries) ==
    [id \in {x.id : x \in Range(entries)} |-> (CHOOSE x \in Range(entries) : x.id = id).url]

\* C17 as stated: the resolver with(overrides) gives has the parent's env,
\* options and hostProps shallow-overridden by the overrides: every field given
\* in overrides.env (react, jsxRuntime, hostProps included) replaces the
\* parent's, except that imports, hostUrls and depsExtra are merged key by key
\* with the override winning; options and hostProps are merged the same way.
C17_WithShallowMerges ==
    \A r \in 1..Len(resolvers) :
        Parent(r) # 0 =>
            LET d == DefaultsAt(heap, resolvers[r].defaults)
                b == DefaultsAt(heap, resolvers[Parent(r)].defaults)
                ov == resolvers[r].overrides
                e == IF ov.env.given THEN ov.env.v ELSE NoPatch
            IN /\ d.env.react = IF e.react.given THEN e.react.v ELSE b.env.react
               /\ d.env.jsxRuntime = IF e.jsxRuntime.given THEN e.jsxRuntime.v
                                     ELSE b.env.jsxRuntime
               /\ d.env.hostProps = IF e.hostProps.given THEN e.hostProps.v ELSE b.env.hostProps
               /\ d.env.imports = OverriddenBy(b.env.imports, OrEmpty(e.imports))
               /\ UrlsOf(d.env.hostUrls)
                      = OverriddenBy(UrlsOf(b.env.hostUrls), UrlsOf(OrNoEntries(e.hostUrls)))
               /\ d.env.depsExtra = OverriddenBy(b.env.depsExtra, OrEmpty(e.depsExtra))
               /\ d.options = OverriddenBy(b.options, OrEmpty(ov.options))
               /\ d.hostProps = OverriddenBy(b.hostProps, OrEmpty(ov.hostProps))

\* ---------------------------------------------------------------------- C20
\* a step that is not a with() leaves every object of the resolvers as it was
C20_Step == resolvers' = resolvers => heap' = heap
\* the call's map holds nothing but its starting entries and the modules of the
\* host urls this call has dealt with; and a call with the environment and
\* options of the call before it fetches what that call fetched
C20_FreshMap ==
    (resolveNo >= 1 /\ MapBuilt) =>
        /\ DOMAIN frame.imports = StartingIds \cup ProcessedIds
        /\ (/\ previous # NoPrevious
            /\ previous.env = call.env /\ previous.opts = call.opts
            /\ previous.loopEnded
            /\ frame.next > Len(call.env.hostUrls))
               => fetched = previous.fetched

\* C20: a module fetched from a host url goes only into the dependency map of
\* the resolve() call that fetched it: resolve() leaves env.imports,
\* env.hostUrls and the resolvers' defaults unchanged, each call builds a map
\* of its own, and a later resolve() with the same environment fetches the url
\* again.
C20_FetchedModuleStaysInItsCall == [](C20_FreshMap) /\ [][C20_Step]_vars

\* the second of two resolve() calls with the same environment, whose
\* env.imports is the resolver's own object, has fetched the url the first
\* fetched
C20_Witness ==
    /\ resolveNo = 2
    /\ previous # NoPrevious
    /\ previous.env = call.env
    /\ call.importsAt # 0
    /\ previous.fetched # <<>>
    /\ fetched = previous.fetched
    /\ outcome.status = "fulfilled"

\* ------------------------------------------------------------------ Embed
\* flight i's await ends in this step
Arrives(i) == i <= Len(flights) /\ flights[i].status = "pending" /\ flights'[i].status # "pending"

\* the arrival left the Embed's render function and error alone and called no onResolved
Discarded ==
    /\ embed'.renderFn = embed.renderFn
    /\ embed'.error = embed.error
    /\ notified' = notified

\* the Embed's `file` is no longer the one flight i was started for (a later
\* resolution was started, or the last pass had another file), or the Embed
\* is unmounted
Outdated(i) ==
    \/ i < Len(flights)
    \/ embed.p.file # flights[i].file
    \/ embed.status = "unmounted"

PassOfCurrent ==
    /\ shown.kind # "none"
    /\ shown.flight > 0
    /\ flights[shown.flight].file = shown.file

\* C19: a render pass while the resolution of its file is in flight returns
\* the fallback; one after the resolution fulfilled returns renderFn(latest
\* props); one after it rejected returns onErrorRender(error), or the default
\* error element without the hook, and so a pass after the resolution settled
\* never returns the fallback.
C19_FallbackThenResultOrError ==
    PassOfCurrent =>
        /\ shown.at = "pending" =>
              shown.out = [kind |-> "fallback", value |-> embed.p.fallback]
        /\ shown.at = "fulfilled" =>
              shown.out = [kind |-> "element",
                           element |-> render(flights[shown.flight].settled.prepared,
                                              flights[shown.flight].env.react, shown.props)]
        /\ shown.at = "rejected" =>
              shown.out = [kind |-> "error",
                           by |-> IF embed.p.onErrorRender THEN "onErrorRender" ELSE "pre",
                           error |-> flights[shown.flight].settled.reason]

\* a pass after the resolution rejected returned the fallback
C19_Witness ==
    /\ PassOfCurrent
    /\ shown.at = "rejected"
    /\ shown.kind = "fallback"
    /\ flights[shown.flight].settled.reason = Undefined
    /\ flights[shown.flight].opts.mode = "factory"

\* ------------------------------------------------------------------- prep
\* the ids and prefixes the build configured: the options', or prep's defaults
ConfiguredIds == OrDefault(prepOptions.injectedIds, DEFAULT_INJECTED_IDS)
ConfiguredPrefixes == OrDefault(prepOptions.injectedPrefixes, DEFAULT_INJECTED_PREFIXES)

\* id is one of the exact ids or starts with one of the prefixes
MatchesClassifier(id) ==
    \/ id \in Range(ConfiguredIds)
    \/ \E pre \in Range(ConfiguredPrefixes) :
          Len(pre) <= Len(id) /\ \A k \in 1..Len(pre) : SubSeq(id, k, k) = SubSeq(pre, k, k)

\* C21: the `external` predicate of the vite plugin and the classifier of the
\* transform, under the options the plugin passes, both answer true for an id
\* exactly when it is a configured exact id or starts with a configured
\* prefix; every id whose imports the transform captured is external.
C21_ClassifiersAgree ==
    /\ asked # NotAsked =>
          /\ asked.external = MatchesClassifier(asked.id)
          /\ shouldInject(asked.id, opts) = asked.external
    /\ \A i \in 1..Len(plugin.injectedImportsById) :
          /\ external(plugin.injectedImportsById[i].importId, prep(prepOptions))
          /\ MatchesClassifier(plugin.injectedImportsById[i].importId)

\* rollup was told that "./util.js" is external through a configured prefix,
\* and the transform captured the chunk's import of it
C21_Witness ==
    /\ asked # NotAsked /\ asked.id = "./util.js" /\ asked.external
    /\ phase = "written"
    /\ MapHas(plugin.injectedImportsById, "./util.js")

\* the policy the build configured: prep's option, "skip" without one
ConfiguredPolicy == OrDefault(prepOptions.onMissingDefault, DEFAULTS.onMissingDefault)

\* the chunk has no default export and no statement the pass takes as the fallback
ChunkWithoutDefault ==
    /\ NoDefaultExport(input)
    /\ \A i \in 1..Len(input) : ~IsFallbackAt(input, i)

\* C26: the onMissingDefault given to prep() is the policy the transform
\* applies to the entry chunk: a chunk without a default export fails the
\* build under "throw", is wrapped with a factory returning null under
\* "return-null", and is left untouched under "skip" or without the option.
C26_PrepPolicyApplied ==
    /\ opts.onMissingDefault = ConfiguredPolicy
    /\ (phase \in {"written", "failed"} /\ ChunkWithoutDefault) =>
          /\ ConfiguredPolicy = "throw" => phase = "failed"
          /\ ConfiguredPolicy = "return-null" =>
                /\ phase = "written"
                /\ \E k \in 1..Len(program) : IsFactory(program[k])
                /\ Last(WrapperBody) = ReturnStatement(NullLiteral)
          /\ ConfiguredPolicy = "skip" => (phase = "written" /\ program = input)

\* prep({ onMissingDefault: "throw" }) left a chunk without a default export untouched
C26_Witness ==
    /\ prepOptions.onMissingDefault = Opt("throw")
    /\ ChunkWithoutDefault
    /\ phase = "written"
    /\ program = input

\* ------------------------------------------------------- fallback default
\* the pass visits a named export statement in this step
VisitsNamedExport ==
    /\ phase = "visit" /\ cursor <= Len(program)
    /\ Node.type = "ExportNamedDeclaration"
    /\ plugin.enabled
    /\ plugin' # plugin \/ program' # program

\* the visited statement has no specifier exported as `default`, no default
\* binding is recorded, and it has exactly one specifier
FallbackConditions ==
    /\ \A k \in 1..Len(Node.specifiers) : ExportedName(Node.specifiers[k]) # "default"
    /\ plugin.defaultExportLocalName = NoName
    /\ Len(Node.specifiers) = 1

\* the step took the statement as the fallback default: the binding is its
\* specifier's local name, returned through .default, and the statement is dropped
TakenAsFallback ==
    /\ plugin' = [plugin EXCEPT !.defaultExportLocalName = LocalNameOf(Node.specifiers[1]),
                                !.returnDefaultProperty = TRUE]
    /\ LocalNameOf(Node.specifiers[1]) # NoName
    /\ program' = SubSeq(program, 1, cursor - 1) \o SubSeq(program, cursor + 1, Len(program))

\* the step left returnDefaultProperty alone and recorded no binding but from
\* a specifier exported as `default`
NotTakenAsFallback ==
    /\ plugin'.returnDefaultProperty = plugin.returnDefaultProperty
    /\ plugin'.defaultExportLocalName =
           LastDefaultLocal(plugin.defaultExportLocalName, Node.specifiers)

\* the entry pre-check does not apply the fallback: under "skip" a file with
\* no default export is disabled and left as it is, fallback candidate or not
PreCheckIgnoresFallback ==
    (opts.onMissingDefault = "skip" /\ NoDefaultExport(input) /\ phase # "enter") =>
        (~plugin.enabled /\ program = input /\ plugin.defaultExportLocalName = NoName)

\* C22 as stated: a named export statement is taken as the fallback default
\* exactly when it has no specifier exported as `default`, no default binding
\* was recorded earlier, and it has exactly one specifier; the pre-check never
\* applies the fallback.
C22_FallbackExactlyWhen ==
    /\ [][VisitsNamedExport =>
             /\ FallbackConditions => TakenAsFallback
             /\ ~FallbackConditions => NotTakenAsFallback]_vars
    /\ []PreCheckIgnoresFallback

\* C22 amended: ... exactly when, besides, that single specifier has a local
\* name: `export * as ns from "..."` has none and is kept as a named export.
C22_FallbackExactlyWhenLocal ==
    /\ [][VisitsNamedExport =>
             /\ (FallbackConditions /\ LocalNameOf(Node.specifiers[1]) # NoName)
                   => TakenAsFallback
             /\ ~(FallbackConditions /\ LocalNameOf(Node.specifiers[1]) # NoName)
                   => NotTakenAsFallback]_vars
    /\ []PreCheckIgnoresFallback

\* the pass took `export { Bar }` as the fallback default of a rewritten file
C22_Witness ==
    /\ phase = "written" /\ plugin.enabled
    /\ plugin.returnDefaultProperty
    /\ \E i \in 1..Len(input) : IsFallbackAt(input, i)
    /\ plugin.keptNamedExports = <<>>

\* C23: whenever programHasDefaultExport is true of a file the pass records a
\* default binding for it, so under "skip" the factory of every rewritten
\* file returns a recorded binding and never null.
C23_PreCheckAgreesWithPass ==
    /\ (phase \in {"written", "failed"} /\ programHasDefaultExport(input)) =>
           plugin.defaultExportLocalName # NoName
    /\ (opts.onMissingDefault = "skip" /\ Rewritten) =>
           /\ plugin.defaultExportLocalName # NoName
           /\ Last(WrapperBody) # ReturnStatement(NullLiteral)

\* under "skip", a file the pre-check let through was rewritten with a
\* factory that returns null
C23_Witness ==
    /\ opts.onMissingDefault = "skip"
    /\ Rewritten
    /\ programHasDefaultExport(input)
    /\ plugin.defaultExportLocalName = NoName
    /\ Last(WrapperBody) = ReturnStatement(NullLiteral)

\* the module bindings of the wrapper: const __m_xxx = __imports["<id>"]
ModuleBindings == SelectSeq(WrapperBody, IsModuleBinding)

\* C27: within one wrapper distinct injected source ids are bound to distinct
\* internal module names, and no internal module name is declared twice.
C27_DistinctModuleNames ==
    Rewritten =>
        /\ \A i, j \in 1..Len(plugin.injectedImportsById) :
               plugin.injectedImportsById[i].importId # plugin.injectedImportsById[j].importId
                  => modIdent(plugin.injectedImportsById[i].importId)
                        # modIdent(plugin.injectedImportsById[j].importId)
        /\ NoDuplicates(BindingNames(ModuleBindings))

\* a wrapper declares one internal name for "@host/ui/button" and for "@host/ui-button"
C27_Witness ==
    /\ Rewritten
    /\ \E i, j \in 1..Len(ModuleBindings) :
          /\ ModuleBindingId(ModuleBindings[i]) = "@host/ui/button"
          /\ ModuleBindingId(ModuleBindings[j]) = "@host/ui-button"
          /\ BindingNames(<<ModuleBindings[i]>>) = BindingNames(<<ModuleBindings[j]>>)

\* ------------------------------------------------------- terminal states
\* the module is loaded, its export picked, and the loop over hostUrls has ended
PastMap == Loaded /\ ~IsNullish(frame.picked) /\ frame.next > Len(call.env.hostUrls)

ComponentDirect ==
    /\ outcome.status = "fulfilled"
    /\ outcome.render.component = frame.picked
    /\ outcome.render.wasFactory = FALSE

CalledFactory ==
    /\ outcome.status = "fulfilled"
    /\ outcome.render.wasFactory = TRUE
    /\ frame.result.kind = "gave"
    /\ outcome.render.component = AfterUnwrap(frame.result.v)
    /\ ~IsNullish(outcome.render.component)
    /\ ~isReactElement(outcome.render.component)

ErrorState == outcome.status = "rejected" /\ call.opts.mode = "factory"

\* C24: a resolve() that has built its dependency map is unsettled until it
\* ends, and ends in exactly one of ComponentDirect, CalledFactory and Error
\* (a rejection, in mode "factory" only); the picked export is invoked at most
\* once; a failed call ends in ComponentDirect only in a mode other than
\* "factory".
C24_ThreeTerminalStates ==
    /\ Len(invoked) <= 1
    /\ (PastMap /\ frame.pc # "done") => outcome = Unsettled
    /\ (PastMap /\ frame.pc = "done") =>
          /\ ComponentDirect \/ CalledFactory \/ ErrorState
          /\ ~(ComponentDirect /\ CalledFactory)
          /\ ~(ComponentDirect /\ ErrorState)
          /\ ~(CalledFactory /\ ErrorState)
          /\ ErrorState => invoked # <<>>
          /\ (CallGaveNoComponent /\ ComponentDirect) => call.opts.mode # "factory"
          /\ (CallGaveNoComponent /\ call.opts.mode = "factory") => ErrorState

\* the promise the export returned resolved with { default: Widget }, which
\* was unwrapped: CalledFactory
C24_Witness ==
    /\ PastMap /\ frame.pc = "done"
    /\ CalledFactory
    /\ frame.deps # Undefined
    /\ frame.result.v = Obj([k \in {"default"} |-> Widget])
    /\ outcome.render.component = Widget

\* ------------------------------------------------------ factory argument
\* the argument the picked export was called with
Argument == invoked[1]

\* the dependency map of the call, as an object
CallMap == Obj(frame.imports)

\* the depsExtra entries are in the argument
ExtrasBeside ==
    \A k \in DOMAIN call.env.depsExtra \ {call.opts.runtimeKey} :
        GetProp(Argument, k) = call.env.depsExtra[k]

\* C28 as stated: the argument of the picked export carries the call's
\* dependency map under runtimeKey whatever keys env.depsExtra has, with the
\* depsExtra entries beside it; that map is the one exposed as render.imports.
C28_ArgumentCarriesMap ==
    /\ \A i \in 1..Len(invoked) :
          /\ GetProp(invoked[i], call.opts.runtimeKey) = CallMap
          /\ ExtrasBeside
    /\ outcome.status = "fulfilled" => outcome.render.imports = frame.imports

\* C28 amended: ... carries the map under runtimeKey unless env.depsExtra has
\* a key equal to runtimeKey, whose value then stands there instead of the map.
C28_ArgumentCarriesMapUnlessOverwritten ==
    /\ \A i \in 1..Len(invoked) :
          /\ GetProp(invoked[i], call.opts.runtimeKey) =
                IF call.opts.runtimeKey \in DOMAIN call.env.depsExtra
                THEN call.env.depsExtra[call.opts.runtimeKey]
                ELSE CallMap
          /\ ExtrasBeside
          /\ DOMAIN invoked[i].props = {call.opts.runtimeKey} \cup DOMAIN call.env.depsExtra
    /\ outcome.status = "fulfilled" => outcome.render.imports = frame.imports

\* the export was called with the map of a call that fetched a host url, and
\* a host flag beside it
C28_Witness ==
    /\ invoked # <<>>
    /\ fetched # <<>>
    /\ call.env.depsExtra = [k \in {"flags"} |-> Str("on")]
    /\ GetProp(Argument, "imports") = CallMap
    /\ GetProp(Argument, "flags") = Str("on")
    /\ outcome.status = "fulfilled"

\* ---------------------------------------------------- with() and resolve()
\* what createFactory is called with, by value
CallArgs(c) ==
    [file |-> c.file, env |-> EnvAt(c.heap, c.env), options |-> Deref(c.heap, c.options),
     hostProps |-> Deref(c.heap, c.hostProps)]

NoOverrides == [env |-> Absent, options |-> Absent, hostProps |-> Absent]

\* C29: for every resolver r, overrides o and file f, r.with(o).resolve(f)
\* calls createFactory with the same file, env, options and host props as
\* r.resolve(f, o).
C29_WithThenResolve ==
    \A w \in 1..Len(resolvers) : \A f \in ResolverFiles :
        resolvers[w].parent # 0 =>
            CallArgs(resolve(heap, resolvers[w].defaults, f, NoOverrides))
               = CallArgs(resolve(heap, resolvers[resolvers[w].parent].defaults, f,
                                  resolvers[w].overrides))

\* resolve(f) was called on a resolver derived with overrides of env, options
\* and host props, with what its parent's resolve(f, o) gives and not what the
\* parent's resolve(f) gives
C29_Witness ==
    \E w \in 1..Len(resolvers) :
       /\ resolvers[w].parent # 0
       /\ resolvers[w].overrides.env.given
       /\ resolvers[w].overrides.hostProps.given
       /\ call # NoCall
       /\ LET viaWith == CallArgs(resolve(heap, resolvers[w].defaults, call.file, NoOverrides))
              direct == CallArgs(resolve(heap, resolvers[resolvers[w].parent].defaults,
                                         call.file, resolvers[w].overrides))
              plain == CallArgs(resolve(heap, resolvers[resolvers[w].parent].defaults,
                                        call.file, NoOverrides))
          IN /\ call.env = viaWith.env
             /\ call.hostPropsOverride = viaWith.hostProps
             /\ call.opts = OptionsOf(viaWith.options)
             /\ viaWith = direct
             /\ viaWith # plain

\* C30: whenever a render pass of Embed returns plugin output (neither the
\* fallback nor the error output), the render function it called was resolved
\* for the `file` of that pass.
C30_OutputIsOfCurrentFile ==
    shown.kind = "element" => shown.resolvedFor = shown.file

\* the pass that brought file "./b.js" returned the output of the render
\* function resolved for "./a.js"
C30_Witness ==
    /\ shown.kind = "element"
    /\ shown.file = "./b.js"
    /\ shown.resolvedFor = "./a.js"
    /\ EffectDue

\* ------------------------------------------------------------------ crawl
\* the source files of the listing, and those crawl has come to
IsSourceFile(item) == HasExt(item) /\ item # appEntryName
SourceFiles == {listing[i] : i \in {j \in 1..Len(listing) : IsSourceFile(listing[j])}}
PositionOf(file) == CHOOSE i \in 1..Len(listing) : listing[i] = file
VisitedFiles == {f \in SourceFiles : PositionOf(f) < visitNo}
CrawlDone == visitNo > Len(listing)

\* the keys a file stands under in a map
KeysOf(m, file) == {k \in DOMAIN m : m[k] = file}

\* the collapsed and the explicit key of each entry, as the doc comments give them
CollapsedKey ==
    [f \in Entries |->
        CASE f \in {"foo.tsx", "foo/index.tsx", "foo/index.ts"} -> "foo"
          [] f = "foo.index.tsx" -> "foo.index"
          [] f \in {"a/b.tsx", "a.b.tsx"} -> "a.b"
          [] f = "index.tsx" -> "index"
          [] f = "__app_entry.tsx" -> "__app_entry"
          [] OTHER -> ""]
ExplicitKey ==
    [f \in Entries |-> IF f \in {"foo/index.tsx", "foo/index.ts"} THEN "foo.index"
                       ELSE CollapsedKey[f]]
IsIndexFile(f) == f \in {"foo/index.tsx", "foo/index.ts", "index.tsx"}

\* an index file and another file have one collapsed key
Collide(x, y) ==
    /\ x \in {"foo/index.tsx", "foo/index.ts"}
    /\ ~IsIndexFile(y)
    /\ CollapsedKey[x] = CollapsedKey[y]

\* C25 as stated: when an index file's collapsed key collides with another
\* file's key, the index file gets the explicit key and the other file keeps
\* the collapsed one, whichever is visited first; every discovered entry file
\* is in the map under exactly one key, in crawl's map and in the returned one.
C25_IndexGetsExplicitKey ==
    /\ CrawlDone =>
          /\ \A x, y \in SourceFiles :
                Collide(x, y) => /\ KeysOf(acc, x) = {ExplicitKey[x]}
                                 /\ KeysOf(acc, y) = {CollapsedKey[y]}
          /\ \A f \in SourceFiles : Cardinality(KeysOf(acc, f)) = 1
    /\ returned.given => \A f \in SourceFiles : Cardinality(KeysOf(returned.v, f)) = 1

\* the keys taken when crawl came to file f
KeysBefore(f) == {k \in DOMAIN acc : PositionOf(acc[k]) < PositionOf(f)}
FirstFreeBefore(f, name) ==
    name \o "__" \o Digits[CHOOSE i \in 2..9 :
                              /\ (name \o "__" \o Digits[i]) \notin KeysBefore(f)
                              /\ \A j \in 2..(i - 1) :
                                    (name \o "__" \o Digits[j]) \in KeysBefore(f)]

\* What crawl does (C25): a file keeps its collapsed key when no file visited before it
\* has taken it; otherwise an index file gets its explicit key ("foo.index"),
\* or the first free "foo.index__n" when that is taken too, and any other
\* file gets the first free "foo__n". So of an index file and another file
\* with one collapsed key the one visited first keeps "foo". No file replaces
\* another under a key: every visited entry file is in crawl's map under
\* exactly one key, and in the returned map too unless its key is the app
\* entry's key, which the returned map gives to the app entry.
C25_FirstVisitedKeepsKey ==
    /\ \A f \in VisitedFiles :
          KeysOf(acc, f) =
             { IF CollapsedKey[f] \notin KeysBefore(f) THEN CollapsedKey[f]
               ELSE IF IsIndexFile(f)
               THEN (IF ExplicitKey[f] \notin KeysBefore(f) THEN ExplicitKey[f]
                     ELSE FirstFreeBefore(f, ExplicitKey[f]))
               ELSE FirstFreeBefore(f, CollapsedKey[f]) }
    /\ \A k \in DOMAIN acc : acc[k] \in VisitedFiles
    /\ returned.given =>
          /\ returned.v[appEntryKey] = appEntryName
          /\ \A f \in SourceFiles :
                KeysOf(returned.v, f) = KeysOf(acc, f) \ {appEntryKey}

\* "foo/index.tsx" was visited before "foo.tsx": the index file kept "foo" and
\* the other file got "foo__2"
C25_Witness ==
    /\ returned.given
    /\ "foo" \in DOMAIN acc /\ acc["foo"] = "foo/index.tsx"
    /\ "foo__2" \in DOMAIN acc /\ acc["foo__2"] = "foo.tsx"

\* "foo.tsx" was visited before "foo/index.tsx": it kept "foo" and the index
\* file got "foo.index"
C25_OtherFileFirst ==
    /\ returned.given
    /\ "foo" \in DOMAIN acc /\ acc["foo"] = "foo.tsx"
    /\ "foo.index" \in DOMAIN acc /\ acc["foo.index"] = "foo/index.tsx"

====
